---- MODULE Spec2Model ----
(***************************************************************************)
(* A model of the chess rules engine (class ChessGame): the board, the     *)
(* pseudo-legal move generators, the legality filter, makeMove, undoMove   *)
(* and checkGameState, together with the caller protocol that drives them  *)
(* (selectPiece, then makeMove, then clearing validMoves), and of the      *)
(* move chooser (class ChessAI): setDifficulty, its own move generators,   *)
(* evaluateBoard, sortMoves, minimax and getBestMove; of the main          *)
(* application in AI mode with the click handlers of ChessUI; and of the   *)
(* serverless back end (matchmaking, game-move and disconnect handlers).   *)
(*                                                                         *)
(* Conventions.  A JavaScript null piece is NoPiece, a null square is      *)
(* NoSquare, a null promotion choice is "none", a null winner is "none".   *)
(* A move descriptor always carries all of its flags; a flag the source    *)
(* leaves undefined is FALSE (castling: "none").  Lists are sequences in   *)
(* the order the source pushes their elements.                             *)
(***************************************************************************)
EXTENDS Integers, Sequences, FiniteSets, TLC

VARIABLES board, currentTurn, validMoves, moveHistory, capturedPieces,
          enPassantTarget, gameOver, winner, isCheck, lastMove, ret,
          probe, difficulty, maxDepth, randomFactor, bestMove, branch, rootScores,
          gameMode, isAIThinking, selectedSquare, pendingPromotion, timers, aiCalls,
          connections, queue, games, online, lambdas, sent

aiVars == <<difficulty, maxDepth, randomFactor, bestMove, branch, rootScores>>

\* the main application and the fields of ChessUI
appVars == <<gameMode, isAIThinking, selectedSquare, pendingPromotion, timers, aiCalls>>

\* the tables, the open connections, the running handlers and the messages
\* posted by the serverless back end
serverVars == <<connections, queue, games, online, lambdas, sent>>

vars == <<board, currentTurn, validMoves, moveHistory, capturedPieces,
          enPassantTarget, gameOver, winner, isCheck, lastMove, ret,
          probe, aiVars, appVars, serverVars>>

(***************************************************************************)
(* Pieces, colors, squares                                                 *)
(***************************************************************************)
WHITE == "white"
BLACK == "black"
COLORS == {WHITE, BLACK}

KING == "king"
QUEEN == "queen"
ROOK == "rook"
BISHOP == "bishop"
KNIGHT == "knight"
PAWN == "pawn"
PIECES == {KING, QUEEN, ROOK, BISHOP, KNIGHT, PAWN}

Coords == 0..7

NoPiece == [type |-> "none", color |-> "none", hasMoved |-> FALSE]
NoSquare == [row |-> -1, col |-> -1]
NoLastMove == [from |-> NoSquare, to |-> NoSquare]

createPiece(type, color) == [type |-> type, color |-> color, hasMoved |-> FALSE]

opposite(color) == IF color = WHITE THEN BLACK ELSE WHITE

backRank(color) ==
    <<createPiece(ROOK, color), createPiece(KNIGHT, color),
      createPiece(BISHOP, color), createPiece(QUEEN, color),
      createPiece(KING, color), createPiece(BISHOP, color),
      createPiece(KNIGHT, color), createPiece(ROOK, color)>>

getInitialBoard ==
    [r \in Coords |->
        [c \in Coords |->
            CASE r = 0 -> backRank(BLACK)[c + 1]
              [] r = 1 -> createPiece(PAWN, BLACK)
              [] r = 6 -> createPiece(PAWN, WHITE)
              [] r = 7 -> backRank(WHITE)[c + 1]
              [] OTHER -> NoPiece]]

inRange(row, col) == row >= 0 /\ row <= 7 /\ col >= 0 /\ col <= 7

\* getPiece reading the board modulo 8
getPiece_wrapped(b, row, col) == b[row % 8][col % 8]

getPiece(b, row, col) == IF inRange(row, col) THEN b[row][col] ELSE NoPiece

setPiece(b, row, col, piece) ==
    IF inRange(row, col) THEN [b EXCEPT ![row][col] = piece] ELSE b

(***************************************************************************)
(* Move descriptors                                                        *)
(***************************************************************************)
mv(row, col) ==
    [row |-> row, col |-> col, capture |-> FALSE, promotion |-> FALSE,
     enPassant |-> FALSE, castling |-> "none", twoStep |-> FALSE]

SeqIf(cond, s) == IF cond THEN s ELSE <<>>

Abs(x) == IF x < 0 THEN -x ELSE x

hasDest(moves, row, col) ==
    \E i \in DOMAIN moves : moves[i].row = row /\ moves[i].col = col

\* Array.prototype.find: the first element with that destination
findDest(moves, row, col) ==
    moves[CHOOSE i \in DOMAIN moves :
            /\ moves[i].row = row /\ moves[i].col = col
            /\ \A j \in 1..(i - 1) : ~(moves[j].row = row /\ moves[j].col = col)]

RECURSIVE ConcatAll(_)
\* the concatenation ss[1] \o ss[2] \o ... \o ss[Len(ss)], computed by halves
ConcatAll(ss) ==
    IF Len(ss) = 0 THEN <<>>
    ELSE IF Len(ss) = 1 THEN ss[1]
    ELSE LET half == Len(ss) \div 2
         IN  ConcatAll(SubSeq(ss, 1, half)) \o ConcatAll(SubSeq(ss, half + 1, Len(ss)))

(***************************************************************************)
(* Pseudo-legal move generation                                            *)
(***************************************************************************)
\* pawnDiagonal with the attack-only case treated like a capture
pawnDiagonal_captureOnly(b, ep, row, col, piece, attackOnly, dc) ==
    LET direction == IF piece.color = WHITE THEN -1 ELSE 1
        promotionRow == IF piece.color = WHITE THEN 0 ELSE 7
        newRow == row + direction
        newCol == col + dc
        target == getPiece(b, newRow, newCol)
    IN  IF ~inRange(newRow, newCol) THEN <<>>
        ELSE (IF target # NoPiece /\ target.color # piece.color
              THEN << [mv(newRow, newCol) EXCEPT !.capture = TRUE,
                          !.promotion = (newRow = promotionRow)] >>
              ELSE <<>>)
             \o SeqIf(~attackOnly /\ ep # NoSquare
                        /\ ep.row = newRow /\ ep.col = newCol,
                      << [mv(newRow, newCol) EXCEPT !.enPassant = TRUE,
                             !.capture = TRUE] >>)

pawnDiagonal(b, ep, row, col, piece, attackOnly, dc) ==
    LET direction == IF piece.color = WHITE THEN -1 ELSE 1
        promotionRow == IF piece.color = WHITE THEN 0 ELSE 7
        newRow == row + direction
        newCol == col + dc
        target == getPiece(b, newRow, newCol)
    IN  IF ~inRange(newRow, newCol) THEN <<>>
        ELSE (IF attackOnly THEN << mv(newRow, newCol) >>
              ELSE IF target # NoPiece /\ target.color # piece.color
                   THEN << [mv(newRow, newCol) EXCEPT !.capture = TRUE,
                               !.promotion = (newRow = promotionRow)] >>
                   ELSE <<>>)
             \o SeqIf(~attackOnly /\ ep # NoSquare
                        /\ ep.row = newRow /\ ep.col = newCol,
                      << [mv(newRow, newCol) EXCEPT !.enPassant = TRUE,
                             !.capture = TRUE] >>)

\* getPawnMoves without the two-square advance
getPawnMoves_singleStep(b, ep, row, col, piece, attackOnly) ==
    LET direction == IF piece.color = WHITE THEN -1 ELSE 1
        promotionRow == IF piece.color = WHITE THEN 0 ELSE 7
        oneStep == row + direction
        forward ==
            IF ~attackOnly /\ oneStep >= 0 /\ oneStep <= 7
                 /\ getPiece(b, oneStep, col) = NoPiece
            THEN << [mv(oneStep, col) EXCEPT !.promotion = (oneStep = promotionRow)] >>
            ELSE <<>>
    IN  forward \o pawnDiagonal(b, ep, row, col, piece, attackOnly, -1)
                \o pawnDiagonal(b, ep, row, col, piece, attackOnly, 1)

getPawnMoves(b, ep, row, col, piece, attackOnly) ==
    LET direction == IF piece.color = WHITE THEN -1 ELSE 1
        startRow == IF piece.color = WHITE THEN 6 ELSE 1
        promotionRow == IF piece.color = WHITE THEN 0 ELSE 7
        oneStep == row + direction
        twoStep == row + 2 * direction
        forward ==
            IF ~attackOnly /\ oneStep >= 0 /\ oneStep <= 7
                 /\ getPiece(b, oneStep, col) = NoPiece
            THEN << [mv(oneStep, col) EXCEPT !.promotion = (oneStep = promotionRow)] >>
                 \o SeqIf(row = startRow /\ getPiece(b, twoStep, col) = NoPiece,
                          << [mv(twoStep, col) EXCEPT !.twoStep = TRUE] >>)
            ELSE <<>>
    IN  forward \o pawnDiagonal(b, ep, row, col, piece, attackOnly, -1)
                \o pawnDiagonal(b, ep, row, col, piece, attackOnly, 1)

RECURSIVE slideRay(_, _, _, _, _, _)
slideRay(b, piece, r, c, dr, dc) ==
    IF ~inRange(r, c) THEN <<>>
    ELSE LET target == getPiece(b, r, c)
         IN  IF target = NoPiece
             THEN << mv(r, c) >> \o slideRay(b, piece, r + dr, c + dc, dr, dc)
             ELSE SeqIf(target.color # piece.color,
                        << [mv(r, c) EXCEPT !.capture = TRUE] >>)

getSlidingMoves(b, row, col, piece, directions) ==
    ConcatAll([i \in DOMAIN directions |->
        slideRay(b, piece, row + directions[i][1], col + directions[i][2],
                 directions[i][1], directions[i][2])])

RookDirections == << <<0, 1>>, <<0, -1>>, <<1, 0>>, <<-1, 0>> >>
BishopDirections == << <<1, 1>>, <<1, -1>>, <<-1, 1>>, <<-1, -1>> >>
QueenDirections == RookDirections \o BishopDirections

KnightOffsets ==
    << <<-2, -1>>, <<-2, 1>>, <<-1, -2>>, <<-1, 2>>,
       <<1, -2>>, <<1, 2>>, <<2, -1>>, <<2, 1>> >>

KingOffsets ==
    << <<-1, -1>>, <<-1, 0>>, <<-1, 1>>, <<0, -1>>,
       <<0, 1>>, <<1, -1>>, <<1, 0>>, <<1, 1>> >>

\* canLand without the test for an own piece
canLand_anywhere(target, piece) == TRUE

\* !target || target.color !== piece.color
canLand(target, piece) == target = NoPiece \/ target.color # piece.color

\* the loop shared by getKnightMoves and getKingMoves
offsetMoves(b, row, col, piece, offsets) ==
    ConcatAll([i \in DOMAIN offsets |->
        LET r == row + offsets[i][1]
            c == col + offsets[i][2]
            target == getPiece(b, r, c)
        IN  SeqIf(inRange(r, c) /\ canLand(target, piece),
                  << [mv(r, c) EXCEPT !.capture = (target # NoPiece)] >>)])

getKnightMoves(b, row, col, piece) == offsetMoves(b, row, col, piece, KnightOffsets)

RECURSIVE getRawMoves(_, _, _, _, _, _)

isSquareAttacked(b, row, col, byColor) ==
    \E r \in Coords : \E c \in Coords :
        LET piece == getPiece(b, r, c)
        IN  /\ piece # NoPiece
            /\ piece.color = byColor
            /\ hasDest(getRawMoves(b, NoSquare, r, c, piece, TRUE), row, col)

findKing(b, color) ==
    IF \E r \in Coords : \E c \in Coords :
           b[r][c].type = KING /\ b[r][c].color = color
    THEN LET r0 == CHOOSE r \in Coords :
                     /\ \E c \in Coords : b[r][c].type = KING /\ b[r][c].color = color
                     /\ \A r2 \in 0..(r - 1) : \A c \in Coords :
                            ~(b[r2][c].type = KING /\ b[r2][c].color = color)
             c0 == CHOOSE c \in Coords :
                     /\ b[r0][c].type = KING /\ b[r0][c].color = color
                     /\ \A c2 \in 0..(c - 1) :
                            ~(b[r0][c2].type = KING /\ b[r0][c2].color = color)
         IN  [row |-> r0, col |-> c0]
    ELSE NoSquare

isInCheck(b, color) ==
    LET kingPos == findKing(b, color)
    IN  IF kingPos = NoSquare THEN FALSE
        ELSE isSquareAttacked(b, kingPos.row, kingPos.col, opposite(color))

\* castlingPathSafe without the attack tests
castlingPathSafe_unchecked(b, row, crossed, landed, opponentColor) == TRUE

\* neither square the king crosses or lands on is attacked by the opponent
castlingPathSafe(b, row, crossed, landed, opponentColor) ==
    /\ ~isSquareAttacked(b, row, crossed, opponentColor)
    /\ ~isSquareAttacked(b, row, landed, opponentColor)

getCastlingMoves(b, row, col, piece) ==
    LET opponentColor == opposite(piece.color)
        kingsideRook == getPiece(b, row, 7)
        queensideRook == getPiece(b, row, 0)
    IN  SeqIf(/\ kingsideRook # NoPiece
              /\ kingsideRook.type = ROOK
              /\ ~kingsideRook.hasMoved
              /\ getPiece(b, row, 5) = NoPiece
              /\ getPiece(b, row, 6) = NoPiece
              /\ castlingPathSafe(b, row, 5, 6, opponentColor),
              << [mv(row, 6) EXCEPT !.castling = "kingside"] >>)
        \o
        SeqIf(/\ queensideRook # NoPiece
              /\ queensideRook.type = ROOK
              /\ ~queensideRook.hasMoved
              /\ getPiece(b, row, 1) = NoPiece
              /\ getPiece(b, row, 2) = NoPiece
              /\ getPiece(b, row, 3) = NoPiece
              /\ castlingPathSafe(b, row, 2, 3, opponentColor),
              << [mv(row, 2) EXCEPT !.castling = "queenside"] >>)

getKingMoves(b, row, col, piece, attackOnly) ==
    offsetMoves(b, row, col, piece, KingOffsets)
    \o (IF ~attackOnly /\ ~piece.hasMoved /\ ~isInCheck(b, piece.color)
        THEN getCastlingMoves(b, row, col, piece)
        ELSE <<>>)

getRawMoves(b, ep, row, col, piece, attackOnly) ==
    CASE piece.type = PAWN -> getPawnMoves(b, ep, row, col, piece, attackOnly)
      [] piece.type = ROOK -> getSlidingMoves(b, row, col, piece, RookDirections)
      [] piece.type = KNIGHT -> getKnightMoves(b, row, col, piece)
      [] piece.type = BISHOP -> getSlidingMoves(b, row, col, piece, BishopDirections)
      [] piece.type = QUEEN -> getSlidingMoves(b, row, col, piece, QueenDirections)
      [] piece.type = KING -> getKingMoves(b, row, col, piece, attackOnly)
      [] OTHER -> <<>>

(***************************************************************************)
(* The legality filter                                                     *)
(***************************************************************************)
simulateMove(b, fromRow, fromCol, toRow, toCol, moveInfo) ==
    LET piece == getPiece(b, fromRow, fromCol)
        capturedRow == IF piece.color = WHITE THEN toRow + 1 ELSE toRow - 1
        b1 == IF moveInfo.enPassant THEN setPiece(b, capturedRow, toCol, NoPiece) ELSE b
        b2 == CASE moveInfo.castling = "kingside" ->
                     setPiece(setPiece(b1, fromRow, 7, NoPiece),
                              fromRow, 5, getPiece(b1, fromRow, 7))
                [] moveInfo.castling = "queenside" ->
                     setPiece(setPiece(b1, fromRow, 0, NoPiece),
                              fromRow, 3, getPiece(b1, fromRow, 0))
                [] OTHER -> b1
    IN  setPiece(setPiece(b2, toRow, toCol, piece), fromRow, fromCol, NoPiece)

\* the test of getValidMoves' loop body: the move is kept when the mover's king
\* is not attacked on the scratch board
\* keepsKingSafe without the simulation
keepsKingSafe_unfiltered(b, row, col, piece, move) == TRUE

keepsKingSafe(b, row, col, piece, move) ==
    ~isInCheck(simulateMove(b, row, col, move.row, move.col, move), piece.color)

\* notOnTurn accepting a piece of either color
notOnTurn_emptyOnly(piece, turn) == piece = NoPiece

\* !piece || piece.color !== this.currentTurn
notOnTurn(piece, turn) == piece = NoPiece \/ piece.color # turn

getValidMoves(b, ep, turn, row, col) ==
    LET piece == getPiece(b, row, col)
    IN  IF notOnTurn(piece, turn) THEN <<>>
        ELSE SelectSeq(getRawMoves(b, ep, row, col, piece, FALSE),
                       LAMBDA move : keepsKingSafe(b, row, col, piece, move))

getAllValidMoves(b, ep, turn, color) ==
    ConcatAll([k \in 1..64 |->
        LET row == (k - 1) \div 8
            col == (k - 1) % 8
            piece == getPiece(b, row, col)
            moves == IF piece # NoPiece /\ piece.color = color
                     THEN getValidMoves(b, ep, turn, row, col) ELSE <<>>
        IN  [i \in DOMAIN moves |->
                [from |-> [row |-> row, col |-> col], to |-> moves[i], piece |-> piece]]])

(***************************************************************************)
(* The game object                                                         *)
(***************************************************************************)
NewGame ==
    [board |-> getInitialBoard,
     currentTurn |-> WHITE,
     validMoves |-> <<>>,
     moveHistory |-> <<>>,
     capturedPieces |-> [white |-> <<>>, black |-> <<>>],
     enPassantTarget |-> NoSquare,
     gameOver |-> FALSE,
     winner |-> "none",
     isCheck |-> FALSE,
     lastMove |-> NoLastMove]

\* gameResult naming the side to move as the winner of a checkmate
gameResult_sideToMove(check, turn) == IF check THEN turn ELSE "draw"

\* the winner checkGameState records when the side to move has no valid move
gameResult(check, turn) == IF check THEN opposite(turn) ELSE "draw"

checkGameState(g) ==
    LET check == isInCheck(g.board, g.currentTurn)
        hasValidMoves ==
            \E row \in Coords : \E col \in Coords :
                /\ getPiece(g.board, row, col).color = g.currentTurn
                /\ getValidMoves(g.board, g.enPassantTarget, g.currentTurn, row, col) # <<>>
    IN  IF hasValidMoves
        THEN [g EXCEPT !.isCheck = check]
        ELSE [g EXCEPT !.isCheck = check,
                       !.gameOver = TRUE,
                       !.winner = gameResult(check, g.currentTurn)]

\* markMoved leaving the flag alone
markMoved_forgotten(piece) == piece

\* piece.hasMoved = true
markMoved(piece) == [piece EXCEPT !.hasMoved = TRUE]

\* nextEnPassantTarget naming the square the pawn landed on
nextEnPassantTarget_landing(moveInfo, piece, toRow, toCol) ==
    IF moveInfo.twoStep THEN [row |-> toRow, col |-> toCol] ELSE NoSquare

\* the en-passant target makeMove leaves behind
nextEnPassantTarget(moveInfo, piece, toRow, toCol) ==
    IF moveInfo.twoStep
    THEN [row |-> IF piece.color = WHITE THEN toRow + 1 ELSE toRow - 1, col |-> toCol]
    ELSE NoSquare

\* enPassantVictimRow naming the destination row
enPassantVictimRow_destination(piece, toRow) == toRow

\* promotedPiece ignoring the choice
promotedPiece_queen(promotionPiece, color) == markMoved(createPiece(QUEEN, color))

\* the piece makeMove puts on the destination of a promotion
promotedPiece(promotionPiece, color) == markMoved(createPiece(promotionPiece, color))

\* the row makeMove takes the en-passant victim from
enPassantVictimRow(piece, toRow) ==
    IF piece.color = WHITE THEN toRow + 1 ELSE toRow - 1

\* makeMove: the returned record is the game after the call, with the call's
\* result in field ret ("true", "false", or "TypeError" when the source
\* dereferences a null castling rook)
makeMove(g, fromRow, fromCol, toRow, toCol, promotionPiece) ==
    LET piece == getPiece(g.board, fromRow, fromCol)
        fail == [game |-> g, ret |-> "false"]
    IN  IF piece = NoPiece THEN fail
        ELSE IF ~hasDest(g.validMoves, toRow, toCol) THEN fail
        ELSE
        LET moveInfo == findDest(g.validMoves, toRow, toCol)
            capturedRow == enPassantVictimRow(piece, toRow)
            capturedPiece == IF moveInfo.enPassant
                             THEN getPiece(g.board, capturedRow, toCol)
                             ELSE getPiece(g.board, toRow, toCol)
            move == [from |-> [row |-> fromRow, col |-> fromCol],
                     to |-> [row |-> toRow, col |-> toCol],
                     piece |-> piece,
                     captured |-> capturedPiece,
                     castling |-> moveInfo.castling,
                     enPassant |-> moveInfo.enPassant,
                     promotion |-> moveInfo.promotion,
                     promotionPiece |-> promotionPiece,
                     previousEnPassant |-> g.enPassantTarget]
            b1 == IF moveInfo.enPassant
                  THEN setPiece(g.board, capturedRow, toCol, NoPiece) ELSE g.board
            rookCol == IF moveInfo.castling = "kingside" THEN 7 ELSE 0
            rookTo == IF moveInfo.castling = "kingside" THEN 5 ELSE 3
            rook == getPiece(b1, fromRow, rookCol)
            \* capturedPieces holds the captured object itself, not a copy: when
            \* that object is also the moving piece or the castling rook (possible
            \* only with a stale validMoves), the later hasMoved = true shows in it
            capturedAt == [row |-> IF moveInfo.enPassant THEN capturedRow ELSE toRow,
                           col |-> toCol]
            aliased == \/ capturedAt = [row |-> fromRow, col |-> fromCol]
                       \/ /\ moveInfo.castling # "none"
                          /\ capturedAt = [row |-> fromRow, col |-> rookCol]
            captured1 == IF capturedPiece # NoPiece
                         THEN [g.capturedPieces EXCEPT
                                 ![piece.color] =
                                    Append(@, IF aliased
                                              THEN markMoved(capturedPiece)
                                              ELSE capturedPiece)]
                         ELSE g.capturedPieces
            b2 == IF moveInfo.castling # "none"
                  THEN setPiece(setPiece(b1, fromRow, rookCol, NoPiece),
                                fromRow, rookTo, markMoved(rook))
                  ELSE b1
            \* piece.hasMoved = true mutates the object still standing on the
            \* from-square (or, after a castling rook was put on it, nothing)
            moved == markMoved(piece)
            b3 == setPiece(setPiece(b2, toRow, toCol, moved), fromRow, fromCol, NoPiece)
            b4 == IF moveInfo.promotion /\ promotionPiece # "none"
                  THEN setPiece(b3, toRow, toCol,
                                promotedPiece(promotionPiece, piece.color))
                  ELSE b3
            ep == nextEnPassantTarget(moveInfo, piece, toRow, toCol)
        IN  IF moveInfo.castling # "none" /\ rook = NoPiece
            THEN [game |-> [g EXCEPT !.board = b1, !.capturedPieces = captured1],
                  ret |-> "TypeError"]
            ELSE [game |-> checkGameState(
                             [g EXCEPT !.board = b4,
                                       !.capturedPieces = captured1,
                                       !.enPassantTarget = ep,
                                       !.lastMove = [from |-> move.from, to |-> move.to],
                                       !.moveHistory = Append(@, move),
                                       !.currentTurn = opposite(g.currentTurn)]),
                  ret |-> "true"]

\* undoCaptureSquare putting every captured piece back on the destination
undoCaptureSquare_destination(move, piece) ==
    [row |-> move.to.row, col |-> move.to.col]

\* the square undoMove puts a captured piece back on
undoCaptureSquare(move, piece) ==
    IF move.enPassant
    THEN [row |-> IF piece.color = WHITE THEN move.to.row + 1 ELSE move.to.row - 1,
          col |-> move.to.col]
    ELSE [row |-> move.to.row, col |-> move.to.col]

\* undoNothing handing the turn over
undoNothing_switchTurn(g) ==
    [game |-> [g EXCEPT !.currentTurn = opposite(g.currentTurn)], ret |-> "false"]

\* if (this.moveHistory.length === 0) return false
undoNothing(g) == [game |-> g, ret |-> "false"]

\* files = 'abcdefgh', read by column
files == <<"a", "b", "c", "d", "e", "f", "g", "h">>

\* ranks counted from the first row of the board upwards
ranks_fromFirstRow == <<"1", "2", "3", "4", "5", "6", "7", "8">>

\* ranks = '87654321', read by row
ranks == <<"8", "7", "6", "5", "4", "3", "2", "1">>

\* a lookup in an object literal: the letter stored under the key, or
\* undefined, which string concatenation writes out as "undefined"
pieceLetters(type) ==
    CASE type = KING -> "K"
      [] type = QUEEN -> "Q"
      [] type = ROOK -> "R"
      [] type = BISHOP -> "B"
      [] type = KNIGHT -> "N"
      [] OTHER -> "undefined"

promotionLetters(type) ==
    CASE type = QUEEN -> "Q"
      [] type = ROOK -> "R"
      [] type = BISHOP -> "B"
      [] type = KNIGHT -> "N"
      [] OTHER -> "undefined"

getMoveNotation(move) ==
    IF move.castling = "kingside" THEN "O-O"
    ELSE IF move.castling = "queenside" THEN "O-O-O"
    ELSE
    LET piece == move.piece
        n0 == ""
        n1 == IF piece.type # PAWN THEN n0 \o pieceLetters(piece.type) ELSE n0
        n2 == IF move.captured # NoPiece
              THEN (IF piece.type = PAWN THEN n1 \o files[move.from.col + 1] ELSE n1)
                   \o "x"
              ELSE n1
        n3 == n2 \o (files[move.to.col + 1] \o ranks[move.to.row + 1])
    IN  IF move.promotion /\ move.promotionPiece # "none"
        THEN n3 \o ("=" \o promotionLetters(move.promotionPiece))
        ELSE n3

\* previousLastMove clearing the last move whatever the history holds
previousLastMove_cleared(history) == NoLastMove

\* the last move undoMove shows once the record has been popped
previousLastMove(history) ==
    IF history = <<>> THEN NoLastMove
    ELSE [from |-> history[Len(history)].from, to |-> history[Len(history)].to]

\* popCaptured leaving the piece in the list
popCaptured_kept(capturedList) == capturedList

\* capturedList.pop()
popCaptured(capturedList) ==
    IF capturedList = <<>> THEN capturedList
    ELSE SubSeq(capturedList, 1, Len(capturedList) - 1)

\* unmarkMoved leaving the flag set
unmarkMoved_kept(rook) == rook

\* rook.hasMoved = false
unmarkMoved(rook) == [rook EXCEPT !.hasMoved = FALSE]

undoMove(g) ==
    IF g.moveHistory = <<>> THEN undoNothing(g)
    ELSE
    LET n == Len(g.moveHistory)
        move == g.moveHistory[n]
        history == SubSeq(g.moveHistory, 1, n - 1)
        piece == IF move.promotion /\ move.promotionPiece # "none"
                 THEN [createPiece(PAWN, move.piece.color)
                          EXCEPT !.hasMoved = move.piece.hasMoved]
                 ELSE move.piece
        b1 == setPiece(setPiece(g.board, move.from.row, move.from.col, piece),
                       move.to.row, move.to.col, NoPiece)
        restoreAt == undoCaptureSquare(move, piece)
        b2 == IF move.captured = NoPiece THEN b1
              ELSE setPiece(b1, restoreAt.row, restoreAt.col, move.captured)
        captured1 == IF move.captured = NoPiece THEN g.capturedPieces
                     ELSE [g.capturedPieces EXCEPT ![piece.color] =
                              popCaptured(@)]
        rookAt == IF move.castling = "kingside" THEN 5 ELSE 3
        rookHome == IF move.castling = "kingside" THEN 7 ELSE 0
        rook == getPiece(b2, move.from.row, rookAt)
        b3 == IF move.castling # "none"
              THEN setPiece(setPiece(b2, move.from.row, rookAt, NoPiece),
                            move.from.row, rookHome, unmarkMoved(rook))
              ELSE b2
        turn == opposite(g.currentTurn)
    IN  IF move.castling # "none" /\ rook = NoPiece
        THEN [game |-> [g EXCEPT !.moveHistory = history, !.board = b2,
                                 !.capturedPieces = captured1],
              ret |-> "TypeError"]
        ELSE [game |-> [g EXCEPT !.moveHistory = history,
                                 !.board = b3,
                                 !.capturedPieces = captured1,
                                 !.enPassantTarget = move.previousEnPassant,
                                 !.currentTurn = turn,
                                 !.gameOver = FALSE,
                                 !.winner = "none",
                                 !.isCheck = isInCheck(b3, turn),
                                 !.lastMove = previousLastMove(history)],
              ret |-> "true"]

\* ChessUI.selectPiece and the deselection that follows a move, as far as the
\* game object is concerned
selectPiece(g, row, col) ==
    [g EXCEPT !.validMoves = getValidMoves(g.board, g.enPassantTarget,
                                           g.currentTurn, row, col)]

clearValidMoves(g) == [g EXCEPT !.validMoves = <<>>]

(***************************************************************************)
(* ChessAI parameters.  randomFactor and the values of Math.random() are   *)
(* counted in hundredths.                                                  *)
(***************************************************************************)
\* setDifficulty keeping a random factor at the hard level
setDifficulty_hardRandom(level) ==
    CASE level = "easy"   -> [difficulty |-> level, maxDepth |-> 2, randomFactor |-> 30]
      [] level = "medium" -> [difficulty |-> level, maxDepth |-> 3, randomFactor |-> 10]
      [] level = "hard"   -> [difficulty |-> level, maxDepth |-> 4, randomFactor |-> 10]
      [] OTHER            -> [difficulty |-> level, maxDepth |-> 3, randomFactor |-> 10]

setDifficulty(level) ==
    CASE level = "easy"   -> [difficulty |-> level, maxDepth |-> 2, randomFactor |-> 30]
      [] level = "medium" -> [difficulty |-> level, maxDepth |-> 3, randomFactor |-> 10]
      [] level = "hard"   -> [difficulty |-> level, maxDepth |-> 4, randomFactor |-> 0]
      [] OTHER            -> [difficulty |-> level, maxDepth |-> 3, randomFactor |-> 10]

\* getBestMove has returned null, or has not been called
NoMove == [from |-> NoSquare, to |-> mv(-1, -1), piece |-> NoPiece]

\* no getPiece call has been made
NoProbe == [row |-> 0, col |-> 0, piece |-> getInitialBoard[0][0]]

(***************************************************************************)
(* ChessAI: attack detection and move generation of the search.  The       *)
(* search works on the caller's game object g and reads g.board,           *)
(* g.enPassantTarget and g.currentTurn.                                    *)
(***************************************************************************)
RECURSIVE rayAttacked(_, _, _, _, _, _, _)
\* one direction of the sliding-piece loop: the first piece met decides
rayAttacked(b, r, c, dr, dc, byColor, types) ==
    IF ~inRange(r, c) THEN FALSE
    ELSE LET p == getPiece(b, r, c)
         IN  IF p # NoPiece THEN p.color = byColor /\ p.type \in types
             ELSE rayAttacked(b, r + dr, c + dc, dr, dc, byColor, types)

\* pawnDir taken as the direction in which the attacking pawns advance
pawnDir_advance(byColor) == IF byColor = WHITE THEN -1 ELSE 1

\* the row offset from an attacked square to the pawns that attack it
pawnDir(byColor) == IF byColor = WHITE THEN 1 ELSE -1

isSquareAttackedForMinimax(b, row, col, byColor) ==
    LET pawnRow == row + pawnDir(byColor)
        stands(r, c, type) ==
            /\ inRange(r, c)
            /\ getPiece(b, r, c).type = type
            /\ getPiece(b, r, c).color = byColor
    IN  \/ \E dc \in {-1, 1} : stands(pawnRow, col + dc, PAWN)
        \/ \E i \in DOMAIN KnightOffsets :
              stands(row + KnightOffsets[i][1], col + KnightOffsets[i][2], KNIGHT)
        \/ \E i \in DOMAIN KingOffsets :
              stands(row + KingOffsets[i][1], col + KingOffsets[i][2], KING)
        \/ \E i \in DOMAIN RookDirections :
              rayAttacked(b, row + RookDirections[i][1], col + RookDirections[i][2],
                          RookDirections[i][1], RookDirections[i][2],
                          byColor, {ROOK, QUEEN})
        \/ \E i \in DOMAIN BishopDirections :
              rayAttacked(b, row + BishopDirections[i][1], col + BishopDirections[i][2],
                          BishopDirections[i][1], BishopDirections[i][2],
                          byColor, {BISHOP, QUEEN})

isKingInCheck(b, color) ==
    LET king == findKing(b, color)
    IN  IF king = NoSquare THEN FALSE
        ELSE isSquareAttackedForMinimax(b, king.row, king.col, opposite(color))

getPawnMovesForMinimax(g, row, col, piece) ==
    LET direction == IF piece.color = WHITE THEN -1 ELSE 1
        startRow == IF piece.color = WHITE THEN 6 ELSE 1
        promotionRow == IF piece.color = WHITE THEN 0 ELSE 7
        oneStep == row + direction
        twoStep == row + 2 * direction
        forward ==
            IF oneStep >= 0 /\ oneStep <= 7 /\ getPiece(g.board, oneStep, col) = NoPiece
            THEN << [mv(oneStep, col) EXCEPT !.promotion = (oneStep = promotionRow)] >>
                 \o SeqIf(row = startRow /\ getPiece(g.board, twoStep, col) = NoPiece,
                          << [mv(twoStep, col) EXCEPT !.twoStep = TRUE] >>)
            ELSE <<>>
        captures(dc) ==
            LET newRow == row + direction
                newCol == col + dc
                target == getPiece(g.board, newRow, newCol)
            IN  IF ~inRange(newRow, newCol) THEN <<>>
                ELSE SeqIf(target # NoPiece /\ target.color # piece.color,
                           << [mv(newRow, newCol) EXCEPT !.capture = TRUE,
                                  !.promotion = (newRow = promotionRow)] >>)
                     \o SeqIf(/\ g.enPassantTarget # NoSquare
                              /\ g.enPassantTarget.row = newRow
                              /\ g.enPassantTarget.col = newCol,
                              << [mv(newRow, newCol) EXCEPT !.enPassant = TRUE,
                                     !.capture = TRUE] >>)
    IN  forward \o captures(-1) \o captures(1)

RECURSIVE slideRayForMinimax(_, _, _, _, _, _)
slideRayForMinimax(b, piece, r, c, dr, dc) ==
    IF ~inRange(r, c) THEN <<>>
    ELSE LET target == getPiece(b, r, c)
         IN  IF target = NoPiece
             THEN << mv(r, c) >> \o slideRayForMinimax(b, piece, r + dr, c + dc, dr, dc)
             ELSE SeqIf(target.color # piece.color,
                        << [mv(r, c) EXCEPT !.capture = TRUE] >>)

getSlidingMovesForMinimax(g, row, col, piece, directions) ==
    ConcatAll([i \in DOMAIN directions |->
        slideRayForMinimax(g.board, piece, row + directions[i][1],
                           col + directions[i][2], directions[i][1], directions[i][2])])

\* the offsets loop of getKnightMovesForMinimax and getKingMovesForMinimax
stepMovesForMinimax(g, row, col, piece, offsets) ==
    ConcatAll([i \in DOMAIN offsets |->
        LET r == row + offsets[i][1]
            c == col + offsets[i][2]
            target == getPiece(g.board, r, c)
        IN  SeqIf(inRange(r, c) /\ (target = NoPiece \/ target.color # piece.color),
                  << [mv(r, c) EXCEPT !.capture = (target # NoPiece)] >>)])

getKnightMovesForMinimax(g, row, col, piece) ==
    stepMovesForMinimax(g, row, col, piece, KnightOffsets)

getKingMovesForMinimax(g, row, col, piece) ==
    LET opponentColor == opposite(piece.color)
        kingsideRook == getPiece(g.board, row, 7)
        queensideRook == getPiece(g.board, row, 0)
    IN  stepMovesForMinimax(g, row, col, piece, KingOffsets)
        \o (IF ~piece.hasMoved /\ ~isKingInCheck(g.board, piece.color)
            THEN SeqIf(/\ kingsideRook # NoPiece
                       /\ kingsideRook.type = ROOK
                       /\ ~kingsideRook.hasMoved
                       /\ getPiece(g.board, row, 5) = NoPiece
                       /\ getPiece(g.board, row, 6) = NoPiece
                       /\ ~isSquareAttackedForMinimax(g.board, row, 5, opponentColor)
                       /\ ~isSquareAttackedForMinimax(g.board, row, 6, opponentColor),
                       << [mv(row, 6) EXCEPT !.castling = "kingside"] >>)
                 \o
                 SeqIf(/\ queensideRook # NoPiece
                       /\ queensideRook.type = ROOK
                       /\ ~queensideRook.hasMoved
                       /\ getPiece(g.board, row, 1) = NoPiece
                       /\ getPiece(g.board, row, 2) = NoPiece
                       /\ getPiece(g.board, row, 3) = NoPiece
                       /\ ~isSquareAttackedForMinimax(g.board, row, 2, opponentColor)
                       /\ ~isSquareAttackedForMinimax(g.board, row, 3, opponentColor),
                       << [mv(row, 2) EXCEPT !.castling = "queenside"] >>)
            ELSE <<>>)

getRawMovesForMinimax(g, row, col, piece) ==
    CASE piece.type = PAWN -> getPawnMovesForMinimax(g, row, col, piece)
      [] piece.type = ROOK -> getSlidingMovesForMinimax(g, row, col, piece, RookDirections)
      [] piece.type = KNIGHT -> getKnightMovesForMinimax(g, row, col, piece)
      [] piece.type = BISHOP -> getSlidingMovesForMinimax(g, row, col, piece, BishopDirections)
      [] piece.type = QUEEN -> getSlidingMovesForMinimax(g, row, col, piece, QueenDirections)
      [] piece.type = KING -> getKingMovesForMinimax(g, row, col, piece)
      [] OTHER -> <<>>

\* the scratch board getValidMovesForMinimax tries a move on: the en-passant
\* victim and the castling rook are handled, a promotion is not
scratchBoardForMinimax(b, row, col, piece, move) ==
    LET capturedRow == IF piece.color = WHITE THEN move.row + 1 ELSE move.row - 1
        b1 == IF move.enPassant THEN setPiece(b, capturedRow, move.col, NoPiece) ELSE b
        b2 == CASE move.castling = "kingside" ->
                     setPiece(setPiece(b1, row, 7, NoPiece), row, 5, getPiece(b1, row, 7))
                [] move.castling = "queenside" ->
                     setPiece(setPiece(b1, row, 0, NoPiece), row, 3, getPiece(b1, row, 0))
                [] OTHER -> b1
    IN  setPiece(setPiece(b2, move.row, move.col, piece), row, col, NoPiece)

getValidMovesForMinimax(g, row, col, piece) ==
    SelectSeq(getRawMovesForMinimax(g, row, col, piece),
              LAMBDA move :
                 ~isKingInCheck(scratchBoardForMinimax(g.board, row, col, piece, move),
                                piece.color))

getAllValidMovesForMinimax(g, color) ==
    ConcatAll([k \in 1..64 |->
        LET row == (k - 1) \div 8
            col == (k - 1) % 8
            piece == getPiece(g.board, row, col)
        IN  IF piece # NoPiece /\ piece.color = color
            THEN \* the moves are computed once per piece
                 CHOOSE found \in
                    { [i \in DOMAIN pieceMoves |->
                         [from |-> [row |-> row, col |-> col],
                          to |-> pieceMoves[i], piece |-> piece]]
                      : pieceMoves \in {getValidMovesForMinimax(g, row, col, piece)} } : TRUE
            ELSE <<>>])

\* makeSimulatedMove mutates the game it is given: the result is that game
\* after the call.  hasMoved is not touched, and a promotion is always a queen.
makeSimulatedMove(g, move) ==
    LET piece == getPiece(g.board, move.from.row, move.from.col)
        capturedRow == IF piece.color = WHITE THEN move.to.row + 1 ELSE move.to.row - 1
        b1 == IF move.to.enPassant
              THEN setPiece(g.board, capturedRow, move.to.col, NoPiece) ELSE g.board
        b2 == CASE move.to.castling = "kingside" ->
                     setPiece(setPiece(b1, move.from.row, 7, NoPiece),
                              move.from.row, 5, getPiece(b1, move.from.row, 7))
                [] move.to.castling = "queenside" ->
                     setPiece(setPiece(b1, move.from.row, 0, NoPiece),
                              move.from.row, 3, getPiece(b1, move.from.row, 0))
                [] OTHER -> b1
        b3 == setPiece(setPiece(b2, move.to.row, move.to.col, piece),
                       move.from.row, move.from.col, NoPiece)
        b4 == IF move.to.promotion
              THEN setPiece(b3, move.to.row, move.to.col, createPiece(QUEEN, piece.color))
              ELSE b3
    IN  IF piece = NoPiece THEN g
        ELSE [g EXCEPT !.board = b4,
                       !.enPassantTarget =
                          IF move.to.twoStep
                          THEN [row |-> IF piece.color = WHITE THEN move.to.row + 1
                                        ELSE move.to.row - 1,
                                col |-> move.to.col]
                          ELSE NoSquare]

(***************************************************************************)
(* ChessAI: evaluation                                                     *)
(***************************************************************************)
PIECE_VALUES ==
    [king |-> 10000, queen |-> 900, rook |-> 500, bishop |-> 330, knight |-> 320,
     pawn |-> 100]

\* POSITION_BONUS[type][color][row + 1][col + 1]
POSITION_BONUS ==
    [pawn |->
       [white |->
         << <<0, 0, 0, 0, 0, 0, 0, 0>>,
            <<50, 50, 50, 50, 50, 50, 50, 50>>,
            <<10, 10, 20, 30, 30, 20, 10, 10>>,
            <<5, 5, 10, 25, 25, 10, 5, 5>>,
            <<0, 0, 0, 20, 20, 0, 0, 0>>,
            <<5, -5, -10, 0, 0, -10, -5, 5>>,
            <<5, 10, 10, -20, -20, 10, 10, 5>>,
            <<0, 0, 0, 0, 0, 0, 0, 0>> >>,
        black |->
         << <<0, 0, 0, 0, 0, 0, 0, 0>>,
            <<5, 10, 10, -20, -20, 10, 10, 5>>,
            <<5, -5, -10, 0, 0, -10, -5, 5>>,
            <<0, 0, 0, 20, 20, 0, 0, 0>>,
            <<5, 5, 10, 25, 25, 10, 5, 5>>,
            <<10, 10, 20, 30, 30, 20, 10, 10>>,
            <<50, 50, 50, 50, 50, 50, 50, 50>>,
            <<0, 0, 0, 0, 0, 0, 0, 0>> >>],
     knight |->
       [white |->
         << <<-50, -40, -30, -30, -30, -30, -40, -50>>,
            <<-40, -20, 0, 0, 0, 0, -20, -40>>,
            <<-30, 0, 10, 15, 15, 10, 0, -30>>,
            <<-30, 5, 15, 20, 20, 15, 5, -30>>,
            <<-30, 0, 15, 20, 20, 15, 0, -30>>,
            <<-30, 5, 10, 15, 15, 10, 5, -30>>,
            <<-40, -20, 0, 5, 5, 0, -20, -40>>,
            <<-50, -40, -30, -30, -30, -30, -40, -50>> >>,
        black |->
         << <<-50, -40, -30, -30, -30, -30, -40, -50>>,
            <<-40, -20, 0, 5, 5, 0, -20, -40>>,
            <<-30, 5, 10, 15, 15, 10, 5, -30>>,
            <<-30, 0, 15, 20, 20, 15, 0, -30>>,
            <<-30, 5, 15, 20, 20, 15, 5, -30>>,
            <<-30, 0, 10, 15, 15, 10, 0, -30>>,
            <<-40, -20, 0, 0, 0, 0, -20, -40>>,
            <<-50, -40, -30, -30, -30, -30, -40, -50>> >>],
     bishop |->
       [white |->
         << <<-20, -10, -10, -10, -10, -10, -10, -20>>,
            <<-10, 0, 0, 0, 0, 0, 0, -10>>,
            <<-10, 0, 5, 10, 10, 5, 0, -10>>,
            <<-10, 5, 5, 10, 10, 5, 5, -10>>,
            <<-10, 0, 10, 10, 10, 10, 0, -10>>,
            <<-10, 10, 10, 10, 10, 10, 10, -10>>,
            <<-10, 5, 0, 0, 0, 0, 5, -10>>,
            <<-20, -10, -10, -10, -10, -10, -10, -20>> >>,
        black |->
         << <<-20, -10, -10, -10, -10, -10, -10, -20>>,
            <<-10, 5, 0, 0, 0, 0, 5, -10>>,
            <<-10, 10, 10, 10, 10, 10, 10, -10>>,
            <<-10, 0, 10, 10, 10, 10, 0, -10>>,
            <<-10, 5, 5, 10, 10, 5, 5, -10>>,
            <<-10, 0, 5, 10, 10, 5, 0, -10>>,
            <<-10, 0, 0, 0, 0, 0, 0, -10>>,
            <<-20, -10, -10, -10, -10, -10, -10, -20>> >>],
     rook |->
       [white |->
         << <<0, 0, 0, 0, 0, 0, 0, 0>>,
            <<5, 10, 10, 10, 10, 10, 10, 5>>,
            <<-5, 0, 0, 0, 0, 0, 0, -5>>,
            <<-5, 0, 0, 0, 0, 0, 0, -5>>,
            <<-5, 0, 0, 0, 0, 0, 0, -5>>,
            <<-5, 0, 0, 0, 0, 0, 0, -5>>,
            <<-5, 0, 0, 0, 0, 0, 0, -5>>,
            <<0, 0, 0, 5, 5, 0, 0, 0>> >>,
        black |->
         << <<0, 0, 0, 5, 5, 0, 0, 0>>,
            <<-5, 0, 0, 0, 0, 0, 0, -5>>,
            <<-5, 0, 0, 0, 0, 0, 0, -5>>,
            <<-5, 0, 0, 0, 0, 0, 0, -5>>,
            <<-5, 0, 0, 0, 0, 0, 0, -5>>,
            <<-5, 0, 0, 0, 0, 0, 0, -5>>,
            <<5, 10, 10, 10, 10, 10, 10, 5>>,
            <<0, 0, 0, 0, 0, 0, 0, 0>> >>],
     queen |->
       [white |->
         << <<-20, -10, -10, -5, -5, -10, -10, -20>>,
            <<-10, 0, 0, 0, 0, 0, 0, -10>>,
            <<-10, 0, 5, 5, 5, 5, 0, -10>>,
            <<-5, 0, 5, 5, 5, 5, 0, -5>>,
            <<0, 0, 5, 5, 5, 5, 0, -5>>,
            <<-10, 5, 5, 5, 5, 5, 0, -10>>,
            <<-10, 0, 5, 0, 0, 0, 0, -10>>,
            <<-20, -10, -10, -5, -5, -10, -10, -20>> >>,
        black |->
         << <<-20, -10, -10, -5, -5, -10, -10, -20>>,
            <<-10, 0, 5, 0, 0, 0, 0, -10>>,
            <<-10, 5, 5, 5, 5, 5, 0, -10>>,
            <<0, 0, 5, 5, 5, 5, 0, -5>>,
            <<-5, 0, 5, 5, 5, 5, 0, -5>>,
            <<-10, 0, 5, 5, 5, 5, 0, -10>>,
            <<-10, 0, 0, 0, 0, 0, 0, -10>>,
            <<-20, -10, -10, -5, -5, -10, -10, -20>> >>],
     king |->
       [white |->
         << <<-30, -40, -40, -50, -50, -40, -40, -30>>,
            <<-30, -40, -40, -50, -50, -40, -40, -30>>,
            <<-30, -40, -40, -50, -50, -40, -40, -30>>,
            <<-30, -40, -40, -50, -50, -40, -40, -30>>,
            <<-20, -30, -30, -40, -40, -30, -30, -20>>,
            <<-10, -20, -20, -20, -20, -20, -20, -10>>,
            <<20, 20, 0, 0, 0, 0, 20, 20>>,
            <<20, 30, 10, 0, 0, 10, 30, 20>> >>,
        black |->
         << <<20, 30, 10, 0, 0, 10, 30, 20>>,
            <<20, 20, 0, 0, 0, 0, 20, 20>>,
            <<-10, -20, -20, -20, -20, -20, -20, -10>>,
            <<-20, -30, -30, -40, -40, -30, -30, -20>>,
            <<-30, -40, -40, -50, -50, -40, -40, -30>>,
            <<-30, -40, -40, -50, -50, -40, -40, -30>>,
            <<-30, -40, -40, -50, -50, -40, -40, -30>>,
            <<-30, -40, -40, -50, -50, -40, -40, -30>> >>]]

RECURSIVE pieceSum(_, _, _, _)
\* the double loop of evaluateBoard over the squares first..last of 1..64
\* (square k is row (k - 1) \div 8, column (k - 1) % 8), summed by halves
pieceSum(b, aiColor, first, last) ==
    IF first = last
    THEN LET row == (first - 1) \div 8
             col == (first - 1) % 8
             piece == getPiece(b, row, col)
             pieceValue == PIECE_VALUES[piece.type]
                             + POSITION_BONUS[piece.type][piece.color][row + 1][col + 1]
         IN  IF piece = NoPiece THEN 0
             ELSE IF piece.color = aiColor THEN pieceValue ELSE -pieceValue
    ELSE LET middle == (first + last) \div 2
         IN  pieceSum(b, aiColor, first, middle) + pieceSum(b, aiColor, middle + 1, last)

centerSquares == << <<3, 3>>, <<3, 4>>, <<4, 3>>, <<4, 4>> >>

RECURSIVE centerSum(_, _, _)
centerSum(b, aiColor, i) ==
    IF i > Len(centerSquares) THEN 0
    ELSE LET piece == getPiece(b, centerSquares[i][1], centerSquares[i][2])
         IN  (IF piece = NoPiece THEN 0
              ELSE IF piece.color = aiColor THEN 10 ELSE -10)
             + centerSum(b, aiColor, i + 1)

\* evaluateBoard without the penalty for the own king in check
evaluateBoard_noCheckPenalty(g, aiColor) ==
    pieceSum(g.board, aiColor, 1, 64) + centerSum(g.board, aiColor, 1)
      + (IF isKingInCheck(g.board, opposite(aiColor)) THEN 50 ELSE 0)

evaluateBoard(g, aiColor) ==
    pieceSum(g.board, aiColor, 1, 64) + centerSum(g.board, aiColor, 1)
      + (IF isKingInCheck(g.board, opposite(aiColor)) THEN 50 ELSE 0)
      - (IF isKingInCheck(g.board, aiColor) THEN 50 ELSE 0)

(***************************************************************************)
(* ChessAI: the search.  Scores are integers; Infinity stands for the      *)
(* JavaScript Infinity and is larger than every score the search computes. *)
(***************************************************************************)
Infinity == 1000000

Max(a, b) == IF a > b THEN a ELSE b

Min(a, b) == IF a < b THEN a ELSE b

\* sortScore with the distance from the center added instead of subtracted
sortScore_awayFromCenter(g, move) ==
    LET capturedPiece == getPiece(g.board, move.to.row, move.to.col)
    IN  (IF move.to.capture
         THEN 1000 + (IF capturedPiece # NoPiece THEN PIECE_VALUES[capturedPiece.type]
                      ELSE 0)
         ELSE 0)
        + 50 * (Abs(2 * move.to.row - 7) + Abs(2 * move.to.col - 7))

\* the score sortMoves gives a move, times 100: a capture counts 10 plus a
\* hundredth of the value of the piece on the destination, and the distance
\* |row - 3.5| + |col - 3.5| of the destination from the center is subtracted
sortScore(g, move) ==
    LET capturedPiece == getPiece(g.board, move.to.row, move.to.col)
    IN  (IF move.to.capture
         THEN 1000 + (IF capturedPiece # NoPiece THEN PIECE_VALUES[capturedPiece.type]
                      ELSE 0)
         ELSE 0)
        - 50 * (Abs(2 * move.to.row - 7) + Abs(2 * move.to.col - 7))

RECURSIVE insertByScore(_, _, _)
\* m goes behind every move whose score is not smaller (the sort is stable)
insertByScore(g, sorted, m) ==
    IF sorted = <<>> THEN << m >>
    ELSE IF sortScore(g, Head(sorted)) >= sortScore(g, m)
         THEN << Head(sorted) >> \o insertByScore(g, Tail(sorted), m)
         ELSE << m >> \o sorted

RECURSIVE sortMoves(_, _)
\* moves.sort((a, b) => scoreB - scoreA)
sortMoves(moves, g) ==
    IF moves = <<>> THEN <<>>
    ELSE insertByScore(g, sortMoves(SubSeq(moves, 1, Len(moves) - 1), g),
                       moves[Len(moves)])

\* if (beta <= alpha) break, taken after the first move whatever its score
cutoff_afterFirst(alpha, beta) == TRUE

\* if (beta <= alpha) break
cutoff(alpha, beta) == beta <= alpha

\* noMoveScore scaled by the remaining depth instead of the plies played
noMoveScore_byDepth(inCheck, isMaximizing, maxD, depth) ==
    IF inCheck
    THEN (IF isMaximizing THEN -100000 + depth ELSE 100000 - depth)
    ELSE 0

\* the score of a side to move that has no move
noMoveScore(inCheck, isMaximizing, maxD, depth) ==
    IF inCheck
    THEN (IF isMaximizing THEN -100000 + (maxD - depth) ELSE 100000 - (maxD - depth))
    ELSE 0

RECURSIVE minimax(_, _, _, _, _, _, _)

\* One iteration of the for loop of minimax, for moves[i].  The loop state holds
\* maxScore or minScore (score), alpha, beta, the game object, whether the
\* loop has been left by break (done), and whether, here or deeper in the tree,
\* a break has left moves unsearched (cut).
minimaxStep(state, moves, i, depth, isMaximizing, aiColor, maxD) ==
    IF state.done THEN state
    ELSE
    LET originalBoard == state.game.board
        originalEnPassant == state.game.enPassantTarget
        currentColor == state.game.currentTurn
        moved == [makeSimulatedMove(state.game, moves[i]) EXCEPT
                    !.currentTurn = opposite(currentColor)]
    IN  CHOOSE next \in
          { LET score == child.score
                alpha1 == IF isMaximizing THEN Max(state.alpha, score) ELSE state.alpha
                beta1 == IF isMaximizing THEN state.beta ELSE Min(state.beta, score)
            IN  [score |-> IF isMaximizing THEN Max(state.score, score)
                           ELSE Min(state.score, score),
                 alpha |-> alpha1,
                 beta |-> beta1,
                 game |-> [child.game EXCEPT !.board = originalBoard,
                                             !.enPassantTarget = originalEnPassant,
                                             !.currentTurn = currentColor],
                 done |-> cutoff(alpha1, beta1),
                 cut |-> \/ state.cut
                         \/ child.cut
                         \/ cutoff(alpha1, beta1) /\ i < Len(moves)]
            : child \in { minimax(moved, depth - 1, state.alpha, state.beta,
                                  ~isMaximizing, aiColor, maxD) } } : TRUE

RECURSIVE minimaxLoop(_, _, _, _, _, _, _, _)
\* the iterations for moves[first], ..., moves[last] in turn, on the loop state
\* the earlier iterations left
minimaxLoop(state, moves, first, last, depth, isMaximizing, aiColor, maxD) ==
    IF first = last
    THEN CHOOSE next \in
           { minimaxStep(s, moves, first, depth, isMaximizing, aiColor, maxD)
             : s \in { state } } : TRUE
    ELSE LET middle == (first + last) \div 2
         IN  CHOOSE next \in
               { minimaxLoop(s, moves, middle + 1, last, depth, isMaximizing,
                             aiColor, maxD)
                 : s \in { minimaxLoop(state, moves, first, middle, depth,
                                       isMaximizing, aiColor, maxD) } } : TRUE

\* the result is the returned score, the game object as the call leaves it,
\* and whether a break left moves unsearched
minimax(g, depth, alpha, beta, isMaximizing, aiColor, maxD) ==
    IF depth = 0 THEN [score |-> evaluateBoard(g, aiColor), game |-> g, cut |-> FALSE]
    ELSE
    CHOOSE result \in
      { IF moves = <<>>
        THEN [score |-> noMoveScore(isKingInCheck(g.board, g.currentTurn),
                                    isMaximizing, maxD, depth),
              game |-> g, cut |-> FALSE]
        ELSE LET left == minimaxLoop(
                            [score |-> IF isMaximizing THEN -Infinity ELSE Infinity,
                             alpha |-> alpha, beta |-> beta, game |-> g, done |-> FALSE,
                             cut |-> FALSE],
                            moves, 1, Len(moves), depth, isMaximizing, aiColor, maxD)
             IN  [score |-> left.score, game |-> left.game, cut |-> left.cut]
        : moves \in { getAllValidMovesForMinimax(g, g.currentTurn) } } : TRUE

\* restoreGame putting back the board only
restoreGame_boardOnly(g, originalBoard, originalEnPassant, originalTurn) ==
    [g EXCEPT !.board = originalBoard]

\* getBestMove's "Restore game state"
restoreGame(g, originalBoard, originalEnPassant, originalTurn) ==
    [g EXCEPT !.board = originalBoard,
              !.enPassantTarget = originalEnPassant,
              !.currentTurn = originalTurn]

\* improves with the best score starting at 0
improves_fromZero(score, bestScore) == score > Max(bestScore, 0)

\* if (score > bestScore)
improves(score, bestScore) == score > bestScore

\* One iteration of the for loop of getBestMove, for sortedMoves[i].  The loop
\* state holds bestMove, bestScore, the game object, and for each move tried so
\* far the score minimax returned and whether its search was cut.
bestMoveStep(state, sortedMoves, i, color, maxD) ==
    LET originalBoard == state.game.board
        originalEnPassant == state.game.enPassantTarget
        originalTurn == state.game.currentTurn
        moved == [makeSimulatedMove(state.game, sortedMoves[i]) EXCEPT
                    !.currentTurn = opposite(color)]
    IN  CHOOSE next \in
          { LET score == child.score
                better == improves(score, state.bestScore)
            IN  [bestMove |-> IF better THEN sortedMoves[i] ELSE state.bestMove,
                 bestScore |-> IF better THEN score ELSE state.bestScore,
                 game |-> restoreGame(child.game, originalBoard, originalEnPassant,
                                      originalTurn),
                 scores |-> Append(state.scores, [score |-> score, cut |-> child.cut])]
            : child \in { minimax(moved, maxD - 1, -Infinity, Infinity, FALSE,
                                  color, maxD) } } : TRUE

RECURSIVE bestMoveLoop(_, _, _, _, _, _)
\* the iterations for sortedMoves[first], ..., sortedMoves[last] in turn
bestMoveLoop(state, sortedMoves, first, last, color, maxD) ==
    IF first = last
    THEN CHOOSE next \in
           { bestMoveStep(s, sortedMoves, first, color, maxD) : s \in { state } } : TRUE
    ELSE LET middle == (first + last) \div 2
         IN  CHOOSE next \in
               { bestMoveLoop(s, sortedMoves, middle + 1, last, color, maxD)
                 : s \in { bestMoveLoop(state, sortedMoves, first, middle, color,
                                        maxD) } } : TRUE

\* the index Math.floor(Math.random() * length) for a draw of r hundredths
randomIndex(r, length) == (r * length) \div 100

\* getBestMove(game) of an AI with the given maxDepth and randomFactor; r1 and
\* r2 are the values of the two Math.random() calls, in hundredths.  The result
\* holds the returned move (NoMove for null), the branch that returned it, the
\* game object after the call and the scores of the root moves in the order
\* they were searched.
getBestMove(g, maxD, factor, r1, r2) ==
    LET color == g.currentTurn
    IN  CHOOSE result \in
          { IF Len(moves) = 0
            THEN [move |-> NoMove, branch |-> "null", game |-> g, scores |-> <<>>]
            ELSE IF factor > 0 /\ r1 < factor
            THEN [move |-> moves[randomIndex(r2, Len(moves)) + 1], branch |-> "random",
                  game |-> g, scores |-> <<>>]
            ELSE LET left == CHOOSE state \in
                               { bestMoveLoop([bestMove |-> NoMove, bestScore |-> -Infinity,
                                               game |-> g, scores |-> <<>>],
                                              sortedMoves, 1, Len(sortedMoves), color, maxD)
                                 : sortedMoves \in { sortMoves(moves, g) } } : TRUE
                 IN  [move |-> left.bestMove, branch |-> "search", game |-> left.game,
                      scores |-> left.scores]
            : moves \in { getAllValidMoves(g.board, g.enPassantTarget,
                                           g.currentTurn, color) } } : TRUE

(***************************************************************************)
(* State                                                                   *)
(***************************************************************************)
Game ==
    [board |-> board, currentTurn |-> currentTurn, validMoves |-> validMoves,
     moveHistory |-> moveHistory, capturedPieces |-> capturedPieces,
     enPassantTarget |-> enPassantTarget, gameOver |-> gameOver,
     winner |-> winner, isCheck |-> isCheck, lastMove |-> lastMove]

SetGame(game) ==
    \E g \in {game} :
    /\ board' = g.board
    /\ currentTurn' = g.currentTurn
    /\ validMoves' = g.validMoves
    /\ moveHistory' = g.moveHistory
    /\ capturedPieces' = g.capturedPieces
    /\ enPassantTarget' = g.enPassantTarget
    /\ gameOver' = g.gameOver
    /\ winner' = g.winner
    /\ isCheck' = g.isCheck
    /\ lastMove' = g.lastMove

\* a null pendingPromotion
NoPromotion == [fromRow |-> -1, fromCol |-> -1, toRow |-> -1, toCol |-> -1]

\* the globals of the main application and the fields of a new ChessUI: no
\* timer is scheduled and no call of makeAIMove is under way
AppStart ==
    /\ gameMode = "multiplayer"
    /\ isAIThinking = FALSE
    /\ selectedSquare = NoSquare
    /\ pendingPromotion = NoPromotion
    /\ timers = 0
    /\ aiCalls = <<>>

\* the back end before anyone has connected: empty tables, no handler running
ServerStart ==
    /\ connections = {}
    /\ queue = <<>>
    /\ games = <<>>
    /\ online = {}
    /\ lambdas = <<>>
    /\ sent = <<>>

\* new ChessGame(): the constructor calls reset()
GameStart ==
    /\ board = NewGame.board
    /\ currentTurn = NewGame.currentTurn
    /\ validMoves = NewGame.validMoves
    /\ moveHistory = NewGame.moveHistory
    /\ capturedPieces = NewGame.capturedPieces
    /\ enPassantTarget = NewGame.enPassantTarget
    /\ gameOver = NewGame.gameOver
    /\ winner = NewGame.winner
    /\ isCheck = NewGame.isCheck
    /\ lastMove = NewGame.lastMove
    /\ ret = "none"
    /\ probe = NoProbe
    /\ difficulty = setDifficulty("medium").difficulty
    /\ maxDepth = setDifficulty("medium").maxDepth
    /\ randomFactor = setDifficulty("medium").randomFactor
    /\ bestMove = NoMove
    /\ branch = "none"
    /\ rootScores = <<>>

\* the page after init(), with no back end in use
Init ==
    /\ GameStart
    /\ AppStart
    /\ ServerStart

(***************************************************************************)
(* The games explored.  A move is <<fromRow, fromCol, toRow, toCol>>; row  *)
(* 0 is rank 8 and column 0 is file a.  Play follows the lines of Book and *)
(* may leave them by any legal move, for at most MaxFree plies.            *)
(***************************************************************************)
MaxFree == 1

FoolsMate ==        \* 1. f3 e5 2. g4 Qh4#
    << <<6,5,5,5>>, <<1,4,3,4>>, <<6,6,4,6>>, <<0,3,4,7>> >>

EnPassantLine ==    \* 1. e4 a6 2. e5 d5 3. exd6 e.p.
    << <<6,4,4,4>>, <<1,0,2,0>>, <<4,4,3,4>>, <<1,3,3,3>>, <<3,4,2,3>> >>

EnPassantMissed ==  \* 1. e4 a6 2. e5 d5 3. h3 h6
    << <<6,4,4,4>>, <<1,0,2,0>>, <<4,4,3,4>>, <<1,3,3,3>>, <<6,7,5,7>>, <<1,7,2,7>> >>

Opening ==          \* 1. e4 e5 2. Nf3 Nc6 3. Bc4 Bc5
    << <<6,4,4,4>>, <<1,4,3,4>>, <<7,6,5,5>>, <<0,1,2,2>>, <<7,5,4,2>>, <<0,5,3,2>> >>

CastleKingside ==   \* 4. O-O Nf6 5. d3 O-O
    Opening \o << <<7,4,7,6>>, <<0,6,2,5>>, <<6,3,5,3>>, <<0,4,0,6>> >>

KingReturns ==      \* 4. Ke2 Nf6 5. Ke1 O-O
    Opening \o << <<7,4,6,4>>, <<0,6,2,5>>, <<6,4,7,4>>, <<0,4,0,6>> >>

RookReturns ==      \* 4. Rg1 Nf6 5. Rh1 d6
    Opening \o << <<7,7,7,6>>, <<0,6,2,5>>, <<7,6,7,7>>, <<1,3,2,3>> >>

CastleQueenside ==  \* 1. d4 d5 2. Bf4 Bf5 3. Nc3 Nc6 4. Qd2 Qd7 5. O-O-O O-O-O
    << <<6,3,4,3>>, <<1,3,3,3>>, <<7,2,4,5>>, <<0,2,3,5>>, <<7,1,5,2>>,
       <<0,1,2,2>>, <<7,3,6,3>>, <<0,3,1,3>>, <<7,4,7,2>>, <<0,4,0,2>> >>

AttackedTransit ==  \* 1. e4 b6 2. g3 Ba6 3. Bg2 Nf6 4. Nf3 e6: f1 is attacked from a6
    << <<6,4,4,4>>, <<1,1,2,1>>, <<6,6,5,6>>, <<0,2,2,0>>, <<7,5,6,6>>,
       <<0,6,2,5>>, <<7,6,5,5>>, <<1,4,2,4>> >>

PromotionLine ==    \* 1. a4 b5 2. axb5 c6 3. bxc6 Ba6 4. c7 Bb5 5. c8=? Qxc8
    << <<6,0,4,0>>, <<1,1,3,1>>, <<4,0,3,1>>, <<1,2,2,2>>, <<3,1,2,2>>,
       <<0,2,2,0>>, <<2,2,1,2>>, <<2,0,3,1>>, <<1,2,0,2>>, <<0,3,0,2>> >>

Stalemate ==        \* 1. e3 a5 2. Qh5 Ra6 3. Qxa5 h5 4. h4 Rah6 5. Qxc7 f6 6. Qxd7+ Kf7
                    \* 7. Qxb7 Qd3 8. Qxb8 Qh7 9. Qxc8 Kg6 10. Qe6 stalemate
    << <<6,4,5,4>>, <<1,0,3,0>>, <<7,3,3,7>>, <<0,0,2,0>>, <<3,7,3,0>>,
       <<1,7,3,7>>, <<6,7,4,7>>, <<2,0,2,7>>, <<3,0,1,2>>, <<1,5,2,5>>,
       <<1,2,1,3>>, <<0,4,1,5>>, <<1,3,1,1>>, <<0,3,5,3>>, <<1,1,0,1>>,
       <<5,3,1,7>>, <<0,1,0,2>>, <<1,5,2,6>>, <<0,2,2,4>> >>

BlackPromotionLine ==   \* 1. Nf3 a5 2. b4 axb4 3. c3 bxc3 4. Ba3 c2 5. Bb4 c1=?
    << <<7,6,5,5>>, <<1,0,3,0>>, <<6,1,4,1>>, <<3,0,4,1>>, <<6,2,5,2>>,
       <<4,1,5,2>>, <<7,2,5,0>>, <<5,2,6,2>>, <<5,0,4,1>>, <<6,2,7,2>> >>

Book ==
    { FoolsMate, EnPassantLine, EnPassantMissed, CastleKingside, KingReturns,
      RookReturns, CastleQueenside, AttackedTransit, PromotionLine,
      BlackPromotionLine, Stalemate }

played(history) ==
    [i \in DOMAIN history |->
        <<history[i].from.row, history[i].from.col,
          history[i].to.row, history[i].to.col>>]

onBook(moves) ==
    \E line \in Book :
        Len(moves) <= Len(line) /\ SubSeq(line, 1, Len(moves)) = moves

\* the number of plies played since the game left the book
offBookPlies(moves) ==
    Len(moves) - CHOOSE n \in 0..Len(moves) :
                    /\ onBook(SubSeq(moves, 1, n))
                    /\ \A k \in (n + 1)..Len(moves) : ~onBook(SubSeq(moves, 1, k))

mayPlay(history, move) ==
    \/ onBook(Append(played(history), move))
    \/ offBookPlies(played(history)) < MaxFree

PromotionChoices(moveInfo) ==
    IF moveInfo.promotion THEN {"none", QUEEN, ROOK, BISHOP, KNIGHT} ELSE {"none"}

(***************************************************************************)
(* Actions                                                                 *)
(***************************************************************************)
\* The way every caller of the source moves a piece: select it (validMoves :=
\* getValidMoves), call makeMove with a destination of that list, clear validMoves
PlayMove(fromRow, fromCol, toRow, toCol, promotionPiece) ==
    /\ mayPlay(moveHistory, <<fromRow, fromCol, toRow, toCol>>)
    /\ \E selected \in {selectPiece(Game, fromRow, fromCol)} :
          /\ hasDest(selected.validMoves, toRow, toCol)
          /\ promotionPiece \in
                PromotionChoices(findDest(selected.validMoves, toRow, toCol))
          /\ \E done \in {makeMove(selected, fromRow, fromCol, toRow, toCol,
                                   promotionPiece)} :
                /\ SetGame(clearValidMoves(done.game))
                /\ ret' = done.ret
                /\ UNCHANGED <<appVars, serverVars, probe, aiVars>>

UndoMove ==
    \E done \in {undoMove(Game)} :
        /\ SetGame(done.game)
        /\ ret' = done.ret
        /\ UNCHANGED <<appVars, serverVars, probe, aiVars>>

Reset ==
    /\ SetGame(NewGame)
    /\ ret' = "none"
    /\ UNCHANGED <<appVars, serverVars, probe, aiVars>>

\* the destinations a caller can pick for the piece on (row, col)
destinations(row, col) ==
    LET moves == getValidMoves(board, enPassantTarget, currentTurn, row, col)
    IN  { <<moves[i].row, moves[i].col>> : i \in DOMAIN moves }

Next ==
    \/ /\ onBook(played(moveHistory)) \/ offBookPlies(played(moveHistory)) < MaxFree
       /\ \E fromRow \in Coords, fromCol \in Coords :
             \E to \in destinations(fromRow, fromCol) :
                \E promotionPiece \in {"none", QUEEN, ROOK, BISHOP, KNIGHT} :
                   PlayMove(fromRow, fromCol, to[1], to[2], promotionPiece)
    \/ UndoMove
    \/ Reset

Spec == Init /\ [][Next]_vars

(***************************************************************************)
(* Direct use of the interface: selectPiece and makeMove called            *)
(* independently of each other, with any squares of DirectSquares, as a    *)
(* caller relaying externally sourced moves would.                         *)
(***************************************************************************)
MaxDirectPly == 2

DirectSquares ==    \* e2, d2, e7, e3, e4, g1
    { <<6,4>>, <<6,3>>, <<1,4>>, <<5,4>>, <<4,4>>, <<7,6>> }

SelectPiece(row, col) ==
    /\ SetGame(selectPiece(Game, row, col))
    /\ ret' = "none"
    /\ UNCHANGED <<appVars, serverVars, probe, aiVars>>

MakeMove(fromRow, fromCol, toRow, toCol, promotionPiece) ==
    /\ Len(moveHistory) < MaxDirectPly
    /\ \E done \in {makeMove(Game, fromRow, fromCol, toRow, toCol, promotionPiece)} :
          /\ SetGame(done.game)
          /\ ret' = done.ret
          /\ UNCHANGED <<appVars, serverVars, probe, aiVars>>

NextDirect ==
    \/ \E sq \in DirectSquares : SelectPiece(sq[1], sq[2])
    \/ \E from \in DirectSquares, to \in DirectSquares :
          MakeMove(from[1], from[2], to[1], to[2], "none")

SpecDirect == Init /\ [][NextDirect]_vars

\* the same direct use, with undoMove and reset (newGame) among the calls
NextHistory ==
    \/ NextDirect
    \/ UndoMove
    \/ Reset

SpecHistory == Init /\ [][NextHistory]_vars

(***************************************************************************)
(* The board accessors called on their own, with coordinates inside and    *)
(* outside the board.                                                      *)
(***************************************************************************)
ProbeCoords == {-1, 0, 7, 8}

ProbePieces == {NoPiece, markMoved(createPiece(QUEEN, WHITE))}

GetPiece(row, col) ==
    /\ probe' = [row |-> row, col |-> col, piece |-> getPiece(board, row, col)]
    /\ UNCHANGED <<appVars, serverVars, board, currentTurn, validMoves, moveHistory, capturedPieces,
                   enPassantTarget, gameOver, winner, isCheck, lastMove, ret, aiVars>>

SetPiece(row, col, piece) ==
    /\ board' = setPiece(board, row, col, piece)
    /\ UNCHANGED <<appVars, serverVars, currentTurn, validMoves, moveHistory, capturedPieces,
                   enPassantTarget, gameOver, winner, isCheck, lastMove, ret,
                   probe, aiVars>>

NextBoard ==
    \/ \E row \in ProbeCoords, col \in ProbeCoords : GetPiece(row, col)
    \/ \E row \in ProbeCoords, col \in ProbeCoords, piece \in ProbePieces :
          SetPiece(row, col, piece)

SpecBoard == Init /\ [][NextBoard]_vars

(***************************************************************************)
(* The move chooser on its own: getBestMove called on a game that stands   *)
(* in one of the positions of AIPositions, at any difficulty, followed by  *)
(* the rest of makeAIMove, which plays the move.  A position lists its     *)
(* pieces as <<row, col, type, color, hasMoved>>; the move history and the *)
(* capture lists, which ChessAI never reads, are empty.                    *)
(***************************************************************************)
MaxAIPly == 1

Levels == {"easy", "medium", "hard", "expert"}

FirstDraws == {5, 50}

SecondDraws == {0, 25, 50, 75, 99}

positionBoard(placed) ==
    [r \in Coords |->
        [c \in Coords |->
            IF \E i \in DOMAIN placed : placed[i][1] = r /\ placed[i][2] = c
            THEN LET p == placed[CHOOSE i \in DOMAIN placed :
                                    placed[i][1] = r /\ placed[i][2] = c]
                 IN  [type |-> p[3], color |-> p[4], hasMoved |-> p[5]]
            ELSE NoPiece]]

gameAt(placed, turn, ep) ==
    checkGameState([NewGame EXCEPT !.board = positionBoard(placed),
                                   !.currentTurn = turn,
                                   !.enPassantTarget = ep])

\* Black: Ka7 Ra8 Nb8 a6 b7 h3.  White: Ke1 Rg2 a5 c7.  Black to move.
\* After ...h2 or ...hxg2 White mates with c8=N; c8=Q does not even check.
KnightPromotionTrap ==
    gameAt(<< <<1, 0, KING, BLACK, TRUE>>, <<0, 0, ROOK, BLACK, FALSE>>,
              <<0, 1, KNIGHT, BLACK, FALSE>>, <<1, 1, PAWN, BLACK, FALSE>>,
              <<2, 0, PAWN, BLACK, TRUE>>, <<5, 7, PAWN, BLACK, TRUE>>,
              <<3, 0, PAWN, WHITE, TRUE>>, <<1, 2, PAWN, WHITE, TRUE>>,
              <<6, 6, ROOK, WHITE, TRUE>>, <<7, 4, KING, WHITE, FALSE>> >>,
           BLACK, NoSquare)

\* Black: Kg8.  White: Kg6 Ra1.  Black to move: ...Kh8 allows Ra8 mate, ...Kf8 does not.
RookMateThreat ==
    gameAt(<< <<0, 6, KING, BLACK, TRUE>>, <<2, 6, KING, WHITE, TRUE>>,
              <<7, 0, ROOK, WHITE, FALSE>> >>,
           BLACK, NoSquare)

\* Black: Kh8.  White: Kg6 Ra8.  Black is checkmated.
Checkmated ==
    gameAt(<< <<0, 7, KING, BLACK, TRUE>>, <<2, 6, KING, WHITE, TRUE>>,
              <<0, 0, ROOK, WHITE, TRUE>> >>,
           BLACK, NoSquare)

\* Black: Ka8.  White: Kb6 Qc7.  Black is stalemated.
Stalemated ==
    gameAt(<< <<0, 0, KING, BLACK, TRUE>>, <<2, 1, KING, WHITE, TRUE>>,
              <<1, 2, QUEEN, WHITE, TRUE>> >>,
           BLACK, NoSquare)

\* White: Ke6 a7.  Black: Kh8.  White to move, a8 promotes.
PawnToPromote ==
    gameAt(<< <<2, 4, KING, WHITE, TRUE>>, <<1, 0, PAWN, WHITE, TRUE>>,
              <<0, 7, KING, BLACK, TRUE>> >>,
           WHITE, NoSquare)

\* White: Ke1 e5.  Black: Ke8 d5, which has just advanced from d7.  White to move.
EnPassantOffer ==
    gameAt(<< <<7, 4, KING, WHITE, FALSE>>, <<3, 4, PAWN, WHITE, TRUE>>,
              <<0, 4, KING, BLACK, FALSE>>, <<3, 3, PAWN, BLACK, TRUE>> >>,
           WHITE, [row |-> 2, col |-> 3])

\* White: Ke1 Rh1, neither has moved.  Black: Kb8 a7.  White to move.
CastlingOffer ==
    gameAt(<< <<7, 4, KING, WHITE, FALSE>>, <<7, 7, ROOK, WHITE, FALSE>>,
              <<0, 1, KING, BLACK, TRUE>>, <<1, 0, PAWN, BLACK, FALSE>> >>,
           WHITE, NoSquare)

\* White: Kg6 Ra1 Rb1.  Black: Kh8.  White to move: Ra8 and Rb8 both mate.
TwoMates ==
    gameAt(<< <<2, 6, KING, WHITE, TRUE>>, <<7, 0, ROOK, WHITE, FALSE>>,
              <<7, 1, ROOK, WHITE, TRUE>>, <<0, 7, KING, BLACK, TRUE>> >>,
           WHITE, NoSquare)

AIPositions ==
    { KnightPromotionTrap, RookMateThreat, Checkmated, Stalemated, PawnToPromote,
      EnPassantOffer, CastlingOffer, TwoMates }

\* new ChessAI('medium') next to a game standing in one of the positions
InitAI ==
    /\ \E g \in AIPositions :
          /\ board = g.board
          /\ currentTurn = g.currentTurn
          /\ validMoves = g.validMoves
          /\ moveHistory = g.moveHistory
          /\ capturedPieces = g.capturedPieces
          /\ enPassantTarget = g.enPassantTarget
          /\ gameOver = g.gameOver
          /\ winner = g.winner
          /\ isCheck = g.isCheck
          /\ lastMove = g.lastMove
    /\ ret = "none"
    /\ probe = NoProbe
    /\ difficulty = setDifficulty("medium").difficulty
    /\ maxDepth = setDifficulty("medium").maxDepth
    /\ randomFactor = setDifficulty("medium").randomFactor
    /\ bestMove = NoMove
    /\ branch = "none"
    /\ rootScores = <<>>
    /\ AppStart
    /\ ServerStart

SetDifficulty(level) ==
    /\ difficulty' = setDifficulty(level).difficulty
    /\ maxDepth' = setDifficulty(level).maxDepth
    /\ randomFactor' = setDifficulty(level).randomFactor
    /\ UNCHANGED <<appVars, serverVars, board, currentTurn, validMoves, moveHistory, capturedPieces,
                   enPassantTarget, gameOver, winner, isCheck, lastMove, ret,
                   probe, bestMove, branch, rootScores>>

\* const move = ai.getBestMove(game): branch tells how the move was chosen and
\* stays set until the move has been played
GetBestMove(r1, r2) ==
    /\ branch = "none"
    /\ Len(moveHistory) < MaxAIPly
    /\ \E done \in {getBestMove(Game, maxDepth, randomFactor, r1, r2)} :
          /\ SetGame(done.game)
          /\ bestMove' = done.move
          /\ branch' = done.branch
          /\ rootScores' = done.scores
          /\ UNCHANGED <<appVars, serverVars, ret, probe, difficulty, maxDepth, randomFactor>>

\* the promotion piece makeAIMove passes to makeMove
aiPromotionPiece(move) == IF move.to.promotion THEN QUEEN ELSE "none"

\* if (move) { ui.selectPiece(from); game.makeMove(from, to, promotionPiece);
\* game.validMoves = [] }
PlayBestMove ==
    /\ bestMove # NoMove
    /\ \E selected \in {selectPiece(Game, bestMove.from.row, bestMove.from.col)} :
          \E done \in {makeMove(selected, bestMove.from.row, bestMove.from.col,
                                bestMove.to.row, bestMove.to.col,
                                aiPromotionPiece(bestMove))} :
             /\ SetGame(clearValidMoves(done.game))
             /\ ret' = done.ret
    /\ bestMove' = NoMove
    /\ branch' = "none"
    /\ rootScores' = <<>>
    /\ UNCHANGED <<appVars, serverVars, probe, difficulty, maxDepth, randomFactor>>

NextAI ==
    \/ \E level \in Levels : SetDifficulty(level)
    \/ \E r1 \in (IF randomFactor > 0 THEN FirstDraws ELSE {0}) :
          \E r2 \in (IF randomFactor > 0 /\ r1 < randomFactor THEN SecondDraws ELSE {0}) :
             GetBestMove(r1, r2)
    \/ PlayBestMove

SpecAI == InitAI /\ [][NextAI]_vars

(***************************************************************************)
(* The functions of ChessAI called on their own: minimax, evaluateBoard    *)
(* and sortMoves, on a game that stands in one of the positions of         *)
(* CallPositions.  probe holds the arguments and the result of the last    *)
(* call.                                                                   *)
(***************************************************************************)
MaxCallDepth == 2

\* White: Kg1 Qa4.  Black: Kg8 Ra8 d4 h7.  White to move: the queen can take
\* the rook in the corner or the pawn next to the center.
CaptureChoice ==
    gameAt(<< <<7, 6, KING, WHITE, TRUE>>, <<4, 0, QUEEN, WHITE, TRUE>>,
              <<0, 6, KING, BLACK, TRUE>>, <<0, 0, ROOK, BLACK, TRUE>>,
              <<4, 3, PAWN, BLACK, TRUE>>, <<1, 7, PAWN, BLACK, FALSE>> >>,
           WHITE, NoSquare)

\* White: Kg1 Qe4.  Black: Ke8 d5.  Black to move, in check from the queen on
\* a center square, which the pawn on another center square can take.
CenterCheck ==
    gameAt(<< <<7, 6, KING, WHITE, TRUE>>, <<4, 4, QUEEN, WHITE, TRUE>>,
              <<0, 4, KING, BLACK, TRUE>>, <<3, 3, PAWN, BLACK, TRUE>> >>,
           BLACK, NoSquare)

CallPositions == AIPositions \cup { CaptureChoice, CenterCheck }

InitCalls ==
    /\ \E g \in CallPositions :
          /\ board = g.board
          /\ currentTurn = g.currentTurn
          /\ validMoves = g.validMoves
          /\ moveHistory = g.moveHistory
          /\ capturedPieces = g.capturedPieces
          /\ enPassantTarget = g.enPassantTarget
          /\ gameOver = g.gameOver
          /\ winner = g.winner
          /\ isCheck = g.isCheck
          /\ lastMove = g.lastMove
    /\ ret = "none"
    /\ probe = NoProbe
    /\ difficulty = setDifficulty("medium").difficulty
    /\ maxDepth = setDifficulty("medium").maxDepth
    /\ randomFactor = setDifficulty("medium").randomFactor
    /\ bestMove = NoMove
    /\ branch = "none"
    /\ rootScores = <<>>
    /\ AppStart
    /\ ServerStart

\* this.minimax(game, depth, alpha, beta, isMaximizing, aiColor) with the full
\* window; as in every call getBestMove and minimax make, depth is below
\* maxDepth and isMaximizing tells whether aiColor is to move
Minimax(depth, aiColor) ==
    /\ depth < maxDepth
    /\ \E isMaximizing \in { currentTurn = aiColor } :
          \E done \in { minimax(Game, depth, -Infinity, Infinity, isMaximizing,
                                aiColor, maxDepth) } :
             /\ SetGame(done.game)
             /\ probe' = [call |-> "minimax", depth |-> depth, aiColor |-> aiColor,
                          isMaximizing |-> isMaximizing, result |-> done.score]
    /\ UNCHANGED <<appVars, serverVars, ret, aiVars>>

\* this.evaluateBoard(game, aiColor)
EvaluateBoard(aiColor) ==
    /\ probe' = [call |-> "evaluateBoard", aiColor |-> aiColor,
                 result |-> evaluateBoard(Game, aiColor)]
    /\ UNCHANGED <<appVars, serverVars, board, currentTurn, validMoves, moveHistory, capturedPieces,
                   enPassantTarget, gameOver, winner, isCheck, lastMove, ret, aiVars>>

\* this.sortMoves(game.getAllValidMoves(game.currentTurn), game)
SortMoves ==
    /\ probe' = [call |-> "sortMoves",
                 result |-> sortMoves(getAllValidMoves(board, enPassantTarget,
                                                       currentTurn, currentTurn),
                                      Game)]
    /\ UNCHANGED <<appVars, serverVars, board, currentTurn, validMoves, moveHistory, capturedPieces,
                   enPassantTarget, gameOver, winner, isCheck, lastMove, ret, aiVars>>

NextCalls ==
    \/ \E level \in Levels : SetDifficulty(level)
    \/ \E depth \in 0..MaxCallDepth, aiColor \in COLORS : Minimax(depth, aiColor)
    \/ \E aiColor \in COLORS : EvaluateBoard(aiColor)
    \/ SortMoves

SpecCalls == InitCalls /\ [][NextCalls]_vars

(***************************************************************************)
(* The queries of ChessGame with their effect on the game object:          *)
(* getValidMoves tries every pseudo-legal move on this.board and puts a    *)
(* saved copy back, so the call is modelled as a loop over the raw moves   *)
(* that hands the game object from one iteration to the next.  Each        *)
(* operator returns the result of the call and the game as the call leaves *)
(* it.                                                                     *)
(***************************************************************************)
\* restoreScratch leaving the tried move on the board
restoreScratch_forgotten(g, originalBoard, originalEnPassant) == g

\* this.board = originalBoard; this.enPassantTarget = originalEnPassant
restoreScratch(g, originalBoard, originalEnPassant) ==
    [g EXCEPT !.board = originalBoard, !.enPassantTarget = originalEnPassant]

\* one iteration of the loop of getValidMoves, for rawMoves[i]; the loop state
\* holds the game object and the moves kept so far
validMovesStep(state, rawMoves, i, row, col, piece) ==
    LET move == rawMoves[i]
        originalBoard == state.game.board
        originalEnPassant == state.game.enPassantTarget
        tried == [state.game EXCEPT
                    !.board = simulateMove(state.game.board, row, col,
                                           move.row, move.col, move)]
    IN  [game |-> restoreScratch(tried, originalBoard, originalEnPassant),
         moves |-> IF ~isInCheck(tried.board, piece.color)
                   THEN Append(state.moves, move) ELSE state.moves]

RECURSIVE validMovesLoop(_, _, _, _, _, _)
\* the iterations for rawMoves[i], ..., in turn
validMovesLoop(state, rawMoves, i, row, col, piece) ==
    IF i > Len(rawMoves) THEN state
    ELSE CHOOSE last \in
           { validMovesLoop(next, rawMoves, i + 1, row, col, piece)
             : next \in { validMovesStep(state, rawMoves, i, row, col, piece) } } : TRUE

\* game.getValidMoves(row, col)
getValidMovesCall(g, row, col) ==
    LET piece == getPiece(g.board, row, col)
    IN  IF notOnTurn(piece, g.currentTurn) THEN [game |-> g, moves |-> <<>>]
        ELSE validMovesLoop([game |-> g, moves |-> <<>>],
                            getRawMoves(g.board, g.enPassantTarget, row, col, piece, FALSE),
                            1, row, col, piece)

\* the body of the double loop of getAllValidMoves for square k of 1..64; the
\* loop state holds the game object and allMoves
allValidMovesStep(state, color, k) ==
    LET row == (k - 1) \div 8
        col == (k - 1) % 8
        piece == getPiece(state.game.board, row, col)
    IN  IF piece # NoPiece /\ piece.color = color
        THEN CHOOSE next \in
               { [game |-> done.game,
                  moves |-> state.moves
                              \o [i \in DOMAIN done.moves |->
                                    [from |-> [row |-> row, col |-> col],
                                     to |-> done.moves[i], piece |-> piece]]]
                 : done \in { getValidMovesCall(state.game, row, col) } } : TRUE
        ELSE state

RECURSIVE allValidMovesLoop(_, _, _, _)
\* the squares first..last in turn, by halves
allValidMovesLoop(state, color, first, last) ==
    IF first = last THEN allValidMovesStep(state, color, first)
    ELSE LET middle == (first + last) \div 2
         IN  CHOOSE next \in
               { allValidMovesLoop(s, color, middle + 1, last)
                 : s \in { allValidMovesLoop(state, color, first, middle) } } : TRUE

\* game.getAllValidMoves(color)
getAllValidMovesCall(g, color) ==
    allValidMovesLoop([game |-> g, moves |-> <<>>], color, 1, 64)

\* the body of the double loop of checkGameState for square k, skipped once
\* the loop has been left by break outerLoop
hasValidMovesStep(state, k) ==
    LET row == (k - 1) \div 8
        col == (k - 1) % 8
        piece == getPiece(state.game.board, row, col)
    IN  IF ~state.hasValidMoves /\ piece # NoPiece /\ piece.color = state.game.currentTurn
        THEN CHOOSE next \in
               { [game |-> done.game, hasValidMoves |-> Len(done.moves) > 0]
                 : done \in { getValidMovesCall(state.game, row, col) } } : TRUE
        ELSE state

RECURSIVE hasValidMovesLoop(_, _, _)
\* the squares first..last in turn, by halves
hasValidMovesLoop(state, first, last) ==
    IF first = last THEN hasValidMovesStep(state, first)
    ELSE LET middle == (first + last) \div 2
         IN  CHOOSE next \in
               { hasValidMovesLoop(s, middle + 1, last)
                 : s \in { hasValidMovesLoop(state, first, middle) } } : TRUE

\* game.checkGameState()
checkGameStateCall(g) ==
    LET check == isInCheck(g.board, g.currentTurn)
        looped == hasValidMovesLoop([game |-> [g EXCEPT !.isCheck = check],
                                     hasValidMoves |-> FALSE], 1, 64)
    IN  IF looped.hasValidMoves THEN looped.game
        ELSE [looped.game EXCEPT !.gameOver = TRUE,
                                 !.winner = gameResult(check, g.currentTurn)]

GetValidMoves(row, col) ==
    /\ \E done \in { getValidMovesCall(Game, row, col) } :
          /\ SetGame(done.game)
          /\ probe' = [call |-> "getValidMoves", row |-> row, col |-> col,
                       result |-> done.moves]
    /\ UNCHANGED <<appVars, serverVars, ret, aiVars>>

GetAllValidMoves(color) ==
    /\ \E done \in { getAllValidMovesCall(Game, color) } :
          /\ SetGame(done.game)
          /\ probe' = [call |-> "getAllValidMoves", color |-> color,
                       result |-> done.moves]
    /\ UNCHANGED <<appVars, serverVars, ret, aiVars>>

CheckGameState ==
    /\ SetGame(checkGameStateCall(Game))
    /\ probe' = [call |-> "checkGameState"]
    /\ UNCHANGED <<appVars, serverVars, ret, aiVars>>

NextQueries ==
    \/ \E row \in Coords, col \in Coords : SelectPiece(row, col)
    \/ \E row \in Coords, col \in Coords : GetValidMoves(row, col)
    \/ \E color \in COLORS : GetAllValidMoves(color)
    \/ CheckGameState

SpecQueries == InitCalls /\ [][NextQueries]_vars

(***************************************************************************)
(* The main application in AI mode: the click handlers of ChessUI, the     *)
(* undo and new-game buttons, and makeAIMove with its two timer waits.     *)
(* timers counts the scheduled setTimeout(() => makeAIMove(), 100) calls;  *)
(* aiCalls holds the calls of makeAIMove that are waiting at an await:     *)
(* "thinking" before ai.getBestMove, "showing" before game.makeMove.  The  *)
(* human and the random move choice of the easy level follow the lines of  *)
(* AppBook.                                                                *)
(***************************************************************************)
MaxTimers == 2

MaxAICalls == 2

appAIColor == BLACK

MateLine ==         \* 1. e4 f6 2. d4 g5 3. Qh5#
    << <<6,4,4,4>>, <<1,5,2,5>>, <<6,3,4,3>>, <<1,6,3,6>>, <<7,3,3,7>> >>

CornerLine ==       \* 1. a4 b5 2. axb5 a6 3. bxa6 Bb7 4. axb7 h6 5. bxa8=?
    << <<6,0,4,0>>, <<1,1,3,1>>, <<4,0,3,1>>, <<1,0,2,0>>, <<3,1,2,0>>,
       <<0,2,1,1>>, <<2,0,1,1>>, <<1,7,2,7>>, <<1,1,0,0>> >>

AppBook == { MateLine, CornerLine }

onAppBook(moves) ==
    \E line \in AppBook :
        Len(moves) <= Len(line) /\ SubSeq(line, 1, Len(moves)) = moves

\* the squares the human clicks: those the lines of AppBook move from and to,
\* and a1
ClickSquares ==
    UNION { UNION { { <<line[i][1], line[i][2]>>, <<line[i][3], line[i][4]>> }
                    : i \in DOMAIN line }
            : line \in AppBook }
      \cup { <<7, 0>> }

App ==
    [game |-> Game, gameMode |-> gameMode, isAIThinking |-> isAIThinking,
     selectedSquare |-> selectedSquare, pendingPromotion |-> pendingPromotion,
     timers |-> timers]

SetApp(app) ==
    \E a \in {app} :
    /\ SetGame(a.game)
    /\ gameMode' = a.gameMode
    /\ isAIThinking' = a.isAIThinking
    /\ selectedSquare' = a.selectedSquare
    /\ pendingPromotion' = a.pendingPromotion
    /\ timers' = a.timers

canPlayerInteract(a) ==
    IF a.isAIThinking THEN FALSE
    ELSE IF a.gameMode = "ai" /\ a.game.currentTurn = appAIColor THEN FALSE
    ELSE TRUE

\* handleMoveComplete and handlePromotionComplete: setTimeout(makeAIMove, 100)
handleMoveComplete(a) ==
    IF a.gameMode = "ai" /\ a.game.currentTurn = appAIColor /\ ~a.game.gameOver
    THEN [a EXCEPT !.timers = @ + 1]
    ELSE a

\* ChessUI.selectPiece
uiSelectPiece(a, row, col) ==
    [a EXCEPT !.selectedSquare = [row |-> row, col |-> col],
              !.game = selectPiece(a.game, row, col)]

\* ChessUI.deselect, and the same two assignments after a move
uiDeselect(a) ==
    [a EXCEPT !.selectedSquare = NoSquare, !.game = clearValidMoves(a.game)]

\* a handler that game.makeMove leaves by a TypeError stops where it is
moveMade(a, done) ==
    IF done.ret = "TypeError" THEN [a EXCEPT !.game = done.game]
    ELSE handleMoveComplete(uiDeselect([a EXCEPT !.game = done.game]))

handleSquareClick(a, row, col) ==
    IF a.game.gameOver THEN a
    ELSE IF ~canPlayerInteract(a) THEN a
    ELSE
    LET piece == getPiece(a.game.board, row, col)
        own == piece # NoPiece /\ piece.color = a.game.currentTurn
    IN  IF a.selectedSquare # NoSquare
        THEN LET fromRow == a.selectedSquare.row
                 fromCol == a.selectedSquare.col
             IN  IF hasDest(a.game.validMoves, row, col)
                 THEN IF findDest(a.game.validMoves, row, col).promotion
                      THEN \* showPromotionModal
                           [a EXCEPT !.pendingPromotion =
                               [fromRow |-> fromRow, fromCol |-> fromCol,
                                toRow |-> row, toCol |-> col]]
                      ELSE moveMade(a, makeMove(a.game, fromRow, fromCol, row, col, "none"))
                 ELSE IF own THEN uiSelectPiece(a, row, col)
                 ELSE uiDeselect(a)
        ELSE IF own THEN uiSelectPiece(a, row, col)
        ELSE a

handlePromotion(a, pieceType) ==
    IF a.pendingPromotion = NoPromotion THEN a
    ELSE LET p == a.pendingPromotion
             done == makeMove(a.game, p.fromRow, p.fromCol, p.toRow, p.toCol, pieceType)
         IN  IF done.ret = "TypeError" THEN [a EXCEPT !.game = done.game]
             ELSE handleMoveComplete(
                    uiDeselect([a EXCEPT !.game = done.game,
                                         !.pendingPromotion = NoPromotion]))

\* the undo button of the main application
appUndoMove(a) ==
    IF a.isAIThinking THEN a
    ELSE uiDeselect(
           [a EXCEPT !.game =
               IF a.gameMode = "ai" /\ Len(a.game.moveHistory) >= 2
               THEN undoMove(undoMove(a.game).game).game
               ELSE undoMove(a.game).game])

\* newGame: game.reset(), ui.reset(), isAIThinking = false
newGame(a) ==
    [a EXCEPT !.game = NewGame, !.selectedSquare = NoSquare,
              !.pendingPromotion = NoPromotion, !.isAIThinking = FALSE]

\* the state after init() and the choice of ai-easy in the mode selector
InitApp ==
    /\ board = NewGame.board
    /\ currentTurn = NewGame.currentTurn
    /\ validMoves = NewGame.validMoves
    /\ moveHistory = NewGame.moveHistory
    /\ capturedPieces = NewGame.capturedPieces
    /\ enPassantTarget = NewGame.enPassantTarget
    /\ gameOver = NewGame.gameOver
    /\ winner = NewGame.winner
    /\ isCheck = NewGame.isCheck
    /\ lastMove = NewGame.lastMove
    /\ ret = "none"
    /\ probe = NoProbe
    /\ difficulty = setDifficulty("easy").difficulty
    /\ maxDepth = setDifficulty("easy").maxDepth
    /\ randomFactor = setDifficulty("easy").randomFactor
    /\ bestMove = NoMove
    /\ branch = "none"
    /\ rootScores = <<>>
    /\ gameMode = "ai"
    /\ isAIThinking = FALSE
    /\ selectedSquare = NoSquare
    /\ pendingPromotion = NoPromotion
    /\ timers = 0
    /\ aiCalls = <<>>
    /\ ServerStart

\* the first value of Math.random() in getBestMove, in hundredths: below the
\* randomFactor of the easy level
RandomBranch == 5

\* a value of Math.random(), in hundredths, that makes getBestMove return
\* the i-th of length moves
drawFor(i, length) ==
    IF length = 0 THEN 0 ELSE (100 * (i - 1) + length - 1) \div length

without(calls, i) ==
    [k \in 1..(Len(calls) - 1) |-> IF k < i THEN calls[k] ELSE calls[k + 1]]

HandleSquareClick(row, col) ==
    /\ \E a \in {handleSquareClick(App, row, col)} :
          /\ a.timers <= MaxTimers
          /\ onAppBook(played(a.game.moveHistory))
          /\ SetApp(a)
    /\ UNCHANGED <<ret, probe, aiVars, aiCalls, serverVars>>

HandlePromotion(pieceType) ==
    /\ \E a \in {handlePromotion(App, pieceType)} :
          /\ a.timers <= MaxTimers
          /\ onAppBook(played(a.game.moveHistory))
          /\ SetApp(a)
    /\ UNCHANGED <<ret, probe, aiVars, aiCalls, serverVars>>

AppUndoMove ==
    /\ SetApp(appUndoMove(App))
    /\ UNCHANGED <<ret, probe, aiVars, aiCalls, serverVars>>

AppNewGame ==
    /\ SetApp(newGame(App))
    /\ UNCHANGED <<ret, probe, aiVars, aiCalls, serverVars>>

\* a 100 ms timer fires: makeAIMove runs up to its first await
MakeAIMoveStarts ==
    /\ timers > 0
    /\ timers' = timers - 1
    /\ IF gameOver \/ isAIThinking THEN UNCHANGED <<isAIThinking, aiCalls>>
       ELSE IF currentTurn # appAIColor THEN UNCHANGED <<isAIThinking, aiCalls>>
       ELSE /\ Len(aiCalls) < MaxAICalls
            /\ isAIThinking' = TRUE
            /\ aiCalls' = Append(aiCalls, [pc |-> "thinking", move |-> NoMove])
    /\ UNCHANGED <<board, currentTurn, validMoves, moveHistory, capturedPieces,
                   enPassantTarget, gameOver, winner, isCheck, lastMove, ret,
                   probe, aiVars, gameMode, selectedSquare, pendingPromotion,
                   serverVars>>

\* the 300 ms wait is over: ai.getBestMove(game), ui.selectPiece(from), or
\* the end of the call when there is no move
MakeAIMoveChooses(i, r1, r2) ==
    /\ i \in DOMAIN aiCalls
    /\ aiCalls[i].pc = "thinking"
    /\ \E done \in {getBestMove(Game, maxDepth, randomFactor, r1, r2)} :
          IF done.move # NoMove
          THEN /\ onAppBook(Append(played(moveHistory),
                                   <<done.move.from.row, done.move.from.col,
                                     done.move.to.row, done.move.to.col>>))
               /\ SetGame(selectPiece(done.game, done.move.from.row, done.move.from.col))
               /\ selectedSquare' = done.move.from
               /\ aiCalls' = [aiCalls EXCEPT ![i] = [pc |-> "showing", move |-> done.move]]
               /\ UNCHANGED isAIThinking
          ELSE /\ SetGame(done.game)
               /\ isAIThinking' = FALSE
               /\ aiCalls' = without(aiCalls, i)
               /\ UNCHANGED selectedSquare
    /\ UNCHANGED <<ret, probe, aiVars, gameMode, pendingPromotion, timers, serverVars>>

\* the 200 ms wait is over: game.makeMove and the end of the call
MakeAIMovePlays(i) ==
    /\ i \in DOMAIN aiCalls
    /\ aiCalls[i].pc = "showing"
    /\ \E move \in {aiCalls[i].move} :
          \E done \in {makeMove(Game, move.from.row, move.from.col,
                                move.to.row, move.to.col, aiPromotionPiece(move))} :
             /\ onAppBook(played(done.game.moveHistory))
             /\ IF done.ret = "TypeError"
                THEN /\ SetGame(done.game)
                     /\ UNCHANGED <<selectedSquare, isAIThinking>>
                ELSE /\ SetGame(clearValidMoves(done.game))
                     /\ selectedSquare' = NoSquare
                     /\ isAIThinking' = FALSE
    /\ aiCalls' = without(aiCalls, i)
    /\ UNCHANGED <<ret, probe, aiVars, gameMode, pendingPromotion, timers, serverVars>>

\* the moves among which the random choice of getBestMove is followed: those
\* that continue a line of AppBook
bookChoices(moves) ==
    { k \in DOMAIN moves :
        onAppBook(Append(played(moveHistory),
                         <<moves[k].from.row, moves[k].from.col,
                           moves[k].to.row, moves[k].to.col>>)) }

\* the calls of makeAIMove that resume after a wait
MakeAIMoveResumes ==
    \/ \E i \in DOMAIN aiCalls :
          /\ aiCalls[i].pc = "thinking"
          /\ \E moves \in {getAllValidMoves(board, enPassantTarget, currentTurn,
                                            currentTurn)} :
                \E k \in (IF moves = <<>> THEN {1} ELSE bookChoices(moves)) :
                   MakeAIMoveChooses(i, RandomBranch, drawFor(k, Len(moves)))
    \/ \E i \in DOMAIN aiCalls : MakeAIMovePlays(i)

\* clicks on the board and in the promotion dialog, the undo button and the
\* calls of makeAIMove
NextPlay ==
    \/ \E sq \in ClickSquares : HandleSquareClick(sq[1], sq[2])
    \/ \E pieceType \in {QUEEN, ROOK, BISHOP, KNIGHT} : HandlePromotion(pieceType)
    \/ AppUndoMove
    \/ MakeAIMoveStarts
    \/ MakeAIMoveResumes

SpecPlay == InitApp /\ [][NextPlay]_vars

\* the same with the new-game button
NextApp ==
    \/ NextPlay
    \/ AppNewGame

SpecApp == InitApp /\ [][NextApp]_vars

(***************************************************************************)
(* The serverless back end: the matchmaking, game-move and disconnect      *)
(* handlers.  Each invocation is a record of lambdas; it advances by one   *)
(* awaited call (a table command or a posted message) per step, so the     *)
(* invocations interleave at their awaits.  queue is the matchmaking table *)
(* as the status-requestedAt index returns it, oldest request first;       *)
(* games is the games table, a game's id being its index; online holds the *)
(* open WebSocket connections; sent lists the posted messages in order.    *)
(***************************************************************************)
\* the variables of the page, which the back end never touches
chessVars ==
    <<board, currentTurn, validMoves, moveHistory, capturedPieces,
      enPassantTarget, gameOver, winner, isCheck, lastMove, ret, probe, aiVars, appVars>>

MaxLambdas == 3

Players == {"c1", "c2", "c3"}

NoGame ==
    [status |-> "none", players |-> [white |-> "none", black |-> "none"],
     currentTurn |-> "none", moves |-> <<>>]

\* PutCommand on the matchmaking table: the item replaces one with the same
\* visitorId and carries the newest requestedAt
putWaiting(q, visitorId) ==
    Append(SelectSeq(q, LAMBDA v : v # visitorId), visitorId)

\* DeleteCommand on the matchmaking table
deleteWaiting(q, visitorId) == SelectSeq(q, LAMBDA v : v # visitorId)

\* QueryCommand on the index with Limit: 2
queryWaiting(q) == IF Len(q) <= 2 THEN q ELSE SubSeq(q, 1, 2)

\* GetCommand on the games table
getGame(table, gameId) == IF gameId \in DOMAIN table THEN table[gameId] ELSE NoGame

\* sendMessage: PostToConnection reaches an open connection; for a closed one
\* it fails with status 410, the connection item is deleted and the error is
\* thrown again
Post(connectionId, message) ==
    IF connectionId \in online
    THEN /\ sent' = Append(sent, [to |-> connectionId] @@ message)
         /\ UNCHANGED connections
    ELSE /\ connections' = connections \ {connectionId}
         /\ UNCHANGED sent

finished(l, statusCode) == [l EXCEPT !.pc = "done", !.statusCode = statusCode]

\* a client closes its connection: the disconnect handler is invoked
Disconnect(c) ==
    /\ c \in online
    /\ Len(lambdas) < MaxLambdas
    /\ online' = online \ {c}
    /\ lambdas' = Append(lambdas, [kind |-> "disconnect", connectionId |-> c,
                                   pc |-> "deleteConnection", statusCode |-> 0])
    /\ UNCHANGED <<connections, queue, games, sent>>
    /\ UNCHANGED chessVars

DisconnectStep(i) ==
    /\ i \in DOMAIN lambdas
    /\ lambdas[i].kind = "disconnect"
    /\ \E l \in {lambdas[i]} :
          CASE l.pc = "deleteConnection" ->
                 /\ connections' = connections \ {l.connectionId}
                 /\ lambdas' = [lambdas EXCEPT ![i].pc = "deleteWaiting"]
                 /\ UNCHANGED queue
            [] l.pc = "deleteWaiting" ->
                 /\ queue' = deleteWaiting(queue, l.connectionId)
                 /\ lambdas' = [lambdas EXCEPT ![i] = finished(l, 200)]
                 /\ UNCHANGED connections
            [] OTHER -> FALSE
    /\ UNCHANGED <<games, online, sent>>
    /\ UNCHANGED chessVars

MaxJoins == 2

\* the number of join_queue requests so far
joinRequests ==
    Cardinality({ i \in DOMAIN lambdas :
                    lambdas[i].kind = "matchmaking" /\ lambdas[i].action = "join_queue" })

\* a connected client sends { action: 'join_queue' } or { action: 'leave_queue' }
MatchmakingRequest(c, action) ==
    /\ c \in online
    /\ Len(lambdas) < MaxLambdas
    /\ action = "join_queue" => joinRequests < MaxJoins
    /\ lambdas' = Append(lambdas,
          [kind |-> "matchmaking", connectionId |-> c, action |-> action,
           pc |-> IF action = "join_queue" THEN "putWaiting"
                  ELSE IF action = "leave_queue" THEN "deleteWaiting"
                  ELSE "invalid",
           statusCode |-> 0, player1 |-> "none", player2 |-> "none",
           player1Color |-> "none", gameId |-> 0, todo |-> {}, failed |-> FALSE])
    /\ UNCHANGED <<connections, queue, games, online, sent>>
    /\ UNCHANGED chessVars

\* the item of the PutCommand on the games table
newGameItem(player1, player2, player1Color) ==
    [status |-> "active",
     players |-> IF player1Color = "white"
                 THEN [white |-> player1, black |-> player2]
                 ELSE [white |-> player2, black |-> player1],
     currentTurn |-> "white",
     moves |-> <<>>]

MatchmakingStep(i) ==
    /\ i \in DOMAIN lambdas
    /\ lambdas[i].kind = "matchmaking"
    /\ \E l \in {lambdas[i]} :
          CASE l.pc = "invalid" ->
                 /\ lambdas' = [lambdas EXCEPT ![i] = finished(l, 400)]
                 /\ UNCHANGED <<connections, queue, games, sent>>
            [] l.pc = "putWaiting" ->
                 /\ queue' = putWaiting(queue, l.connectionId)
                 /\ lambdas' = [lambdas EXCEPT ![i].pc = "notifyQueued"]
                 /\ UNCHANGED <<connections, games, sent>>
            [] l.pc = "notifyQueued" ->
                 /\ Post(l.connectionId, [type |-> "matchmaking_status", status |-> "queued"])
                 /\ lambdas' = [lambdas EXCEPT ![i] =
                                  IF l.connectionId \in online
                                  THEN [l EXCEPT !.pc = "queryWaiting"]
                                  ELSE finished(l, 500)]
                 /\ UNCHANGED <<queue, games>>
            [] l.pc = "queryWaiting" ->
                 /\ \E items \in {queryWaiting(queue)} :
                       IF Len(items) >= 2
                       THEN \E player1Color \in {"white", "black"} :
                               lambdas' = [lambdas EXCEPT ![i] =
                                   [l EXCEPT !.pc = "putGame",
                                             !.player1 = items[1],
                                             !.player2 = items[2],
                                             !.player1Color = player1Color]]
                       ELSE lambdas' = [lambdas EXCEPT ![i] = finished(l, 200)]
                 /\ UNCHANGED <<connections, queue, games, sent>>
            [] l.pc = "putGame" ->
                 /\ games' = Append(games, newGameItem(l.player1, l.player2, l.player1Color))
                 /\ lambdas' = [lambdas EXCEPT ![i] =
                                  [l EXCEPT !.pc = "deletePlayers",
                                            !.gameId = Len(games) + 1,
                                            !.todo = {l.player1, l.player2}]]
                 /\ UNCHANGED <<connections, queue, sent>>
            [] l.pc = "deletePlayers" ->
                 \* Promise.all of the two DeleteCommands, in either order
                 /\ \E p \in l.todo :
                       /\ queue' = deleteWaiting(queue, p)
                       /\ lambdas' = [lambdas EXCEPT ![i] =
                             IF l.todo = {p}
                             THEN [l EXCEPT !.pc = "notifyPlayers",
                                            !.todo = {l.player1, l.player2}]
                             ELSE [l EXCEPT !.todo = @ \ {p}]]
                 /\ UNCHANGED <<connections, games, sent>>
            [] l.pc = "notifyPlayers" ->
                 \* Promise.all of the two sendMessage calls, in either order
                 /\ \E p \in l.todo :
                       /\ Post(p, [type |-> "match_found", gameId |-> l.gameId,
                                   color |-> IF p = l.player1 THEN l.player1Color
                                             ELSE opposite(l.player1Color)])
                       /\ \E failed \in {l.failed \/ p \notin online} :
                             lambdas' = [lambdas EXCEPT ![i] =
                                IF l.todo = {p}
                                THEN finished([l EXCEPT !.todo = {}, !.failed = failed],
                                              IF failed THEN 500 ELSE 200)
                                ELSE [l EXCEPT !.todo = @ \ {p}, !.failed = failed]]
                 /\ UNCHANGED <<queue, games>>
            [] l.pc = "deleteWaiting" ->
                 /\ queue' = deleteWaiting(queue, l.connectionId)
                 /\ lambdas' = [lambdas EXCEPT ![i].pc = "notifyLeft"]
                 /\ UNCHANGED <<connections, games, sent>>
            [] l.pc = "notifyLeft" ->
                 /\ Post(l.connectionId, [type |-> "matchmaking_status", status |-> "left_queue"])
                 /\ lambdas' = [lambdas EXCEPT ![i] =
                                  finished(l, IF l.connectionId \in online THEN 200 ELSE 500)]
                 /\ UNCHANGED <<queue, games>>
            [] OTHER -> FALSE
    /\ UNCHANGED online
    /\ UNCHANGED chessVars

\* the clients that look for an opponent
MatchPlayers == {"c1", "c2"}

\* they have connected; the tables of the queue and the games are empty
InitMatch ==
    /\ GameStart
    /\ AppStart
    /\ connections = MatchPlayers
    /\ queue = <<>>
    /\ games = <<>>
    /\ online = MatchPlayers
    /\ lambdas = <<>>
    /\ sent = <<>>

NextMatch ==
    \/ \E c \in MatchPlayers : Disconnect(c)
    \/ \E c \in MatchPlayers, action \in {"join_queue", "leave_queue", "ping"} :
          MatchmakingRequest(c, action)
    \/ \E i \in 1..MaxLambdas : MatchmakingStep(i)
    \/ \E i \in 1..MaxLambdas : DisconnectStep(i)

SpecMatch == InitMatch /\ [][NextMatch]_vars

(***************************************************************************)
(* The game-move handler, on a games table that holds an active game of    *)
(* c1 (white) against c2 (black) and a game that an earlier deployment     *)
(* closed.  A request carries a gameId and a move or lacks them (0, which  *)
(* the handler takes for missing); a move is the number of its request.    *)
(***************************************************************************)
GameIds == 0..3

StoredGames ==
    << [status |-> "active", players |-> [white |-> "c1", black |-> "c2"],
        currentTurn |-> "white", moves |-> <<>>],
       [status |-> "finished", players |-> [white |-> "c1", black |-> "c3"],
        currentTurn |-> "black", moves |-> <<>>] >>

\* playerColor with every sender taken for white
playerColor_white(game, connectionId) == "white"

\* const playerColor = game.players.white === connectionId ? 'white' : ...
playerColor(game, connectionId) ==
    IF game.players.white = connectionId THEN "white"
    ELSE IF game.players.black = connectionId THEN "black"
    ELSE "none"

\* the checks of the handler on the game it has read: the status code of the
\* early return, or 0 when the move goes on to the update
rejection(game, connectionId) ==
    IF game = NoGame THEN 404
    ELSE IF game.status # "active" THEN 400
    ELSE IF playerColor(game, connectionId) = "none" THEN 403
    ELSE IF game.currentTurn # playerColor(game, connectionId) THEN 400
    ELSE 0

\* a connected client sends a game move
GameMoveRequest(c, gameId, hasMove) ==
    /\ c \in online
    /\ Len(lambdas) < MaxLambdas
    /\ \E move \in {IF hasMove THEN Len(lambdas) + 1 ELSE 0} :
          lambdas' = Append(lambdas,
             [kind |-> "game-move", connectionId |-> c, gameId |-> gameId,
              move |-> move,
              pc |-> IF gameId = 0 \/ move = 0 THEN "done" ELSE "getGame",
              statusCode |-> IF gameId = 0 \/ move = 0 THEN 400 ELSE 0,
              game |-> NoGame, playerColor |-> "none"])
    /\ UNCHANGED <<connections, queue, games, online, sent>>
    /\ UNCHANGED chessVars

GameMoveStep(i) ==
    /\ i \in DOMAIN lambdas
    /\ lambdas[i].kind = "game-move"
    /\ \E l \in {lambdas[i]} :
          CASE l.pc = "getGame" ->
                 /\ \E game \in {getGame(games, l.gameId)} :
                       lambdas' = [lambdas EXCEPT ![i] =
                          IF rejection(game, l.connectionId) # 0
                          THEN finished(l, rejection(game, l.connectionId))
                          ELSE [l EXCEPT !.pc = "updateGame", !.game = game,
                                         !.playerColor =
                                             playerColor(game, l.connectionId)]]
                 /\ UNCHANGED <<connections, games, sent>>
            [] l.pc = "updateGame" ->
                 \* UpdateCommand: SET moves = :moves, currentTurn = :turn
                 /\ games' = [games EXCEPT
                       ![l.gameId].moves =
                           Append(l.game.moves, [move |-> l.move, player |-> l.playerColor]),
                       ![l.gameId].currentTurn = opposite(l.playerColor)]
                 /\ lambdas' = [lambdas EXCEPT ![i].pc = "notifyOpponent"]
                 /\ UNCHANGED <<connections, sent>>
            [] l.pc = "notifyOpponent" ->
                 \* a failure to notify the opponent is logged and passed over
                 /\ Post(IF l.playerColor = "white" THEN l.game.players.black
                         ELSE l.game.players.white,
                         [type |-> "opponent_move", gameId |-> l.gameId, move |-> l.move,
                          currentTurn |-> opposite(l.playerColor)])
                 /\ lambdas' = [lambdas EXCEPT ![i].pc = "confirmMove"]
                 /\ UNCHANGED games
            [] l.pc = "confirmMove" ->
                 /\ Post(l.connectionId,
                         [type |-> "move_confirmed", gameId |-> l.gameId, move |-> l.move,
                          currentTurn |-> opposite(l.playerColor)])
                 /\ lambdas' = [lambdas EXCEPT ![i] =
                                  finished(l, IF l.connectionId \in online THEN 200 ELSE 500)]
                 /\ UNCHANGED games
            [] OTHER -> FALSE
    /\ UNCHANGED <<queue, online>>
    /\ UNCHANGED chessVars

InitMoves ==
    /\ GameStart
    /\ AppStart
    /\ connections = Players
    /\ queue = <<>>
    /\ games = StoredGames
    /\ online = Players
    /\ lambdas = <<>>
    /\ sent = <<>>

NextMoves ==
    \/ \E c \in Players, gameId \in GameIds, hasMove \in BOOLEAN :
          GameMoveRequest(c, gameId, hasMove)
    \/ \E i \in 1..MaxLambdas : GameMoveStep(i)
    \/ \E c \in Players : Disconnect(c)
    \/ \E i \in 1..MaxLambdas : DisconnectStep(i)

SpecMoves == InitMoves /\ [][NextMoves]_vars

(***************************************************************************)
(* Properties                                                              *)
(***************************************************************************)
gameFields ==
    <<board, currentTurn, enPassantTarget, moveHistory, capturedPieces,
      gameOver, winner, isCheck, lastMove>>

\* (toRow, toCol) is a destination of getValidMoves(fromRow, fromCol) computed
\* on the current state, and the from-square holds a piece
isLegalNow(fromRow, fromCol, toRow, toCol) ==
    /\ getPiece(board, fromRow, fromCol) # NoPiece
    /\ hasDest(getValidMoves(board, enPassantTarget, currentTurn, fromRow, fromCol),
               toRow, toCol)

\* C1: makeMove returns false and changes no state field whenever the
\* from-square is empty or the destination is not in getValidMoves(from)
\* computed on the current state.
C1_IllegalMoveRejected ==
    [][\A from \in DirectSquares, to \in DirectSquares :
          (/\ MakeMove(from[1], from[2], to[1], to[2], "none")
           /\ ~isLegalNow(from[1], from[2], to[1], to[2]))
          => (ret' = "false" /\ UNCHANGED gameFields)]_vars

(***************************************************************************)
(* Chess geometry, stated independently of the move generators             *)
(***************************************************************************)
Squares == Coords \X Coords

homeRow(color) == IF color = WHITE THEN 7 ELSE 0

pawnDirection(color) == IF color = WHITE THEN -1 ELSE 1

kingSquares(b, color) ==
    { sq \in Squares : b[sq[1]][sq[2]].type = KING /\ b[sq[1]][sq[2]].color = color }

\* every square strictly between two aligned squares is empty
clearBetween(b, fromRow, fromCol, toRow, toCol) ==
    LET dr == toRow - fromRow
        dc == toCol - fromCol
        n == IF Abs(dr) > Abs(dc) THEN Abs(dr) ELSE Abs(dc)
    IN  \A k \in 1..(n - 1) :
            b[fromRow + k * (dr \div n)][fromCol + k * (dc \div n)] = NoPiece

\* the piece on (fromRow, fromCol) attacks (toRow, toCol)
reaches(b, fromRow, fromCol, toRow, toCol) ==
    LET p == b[fromRow][fromCol]
        dr == toRow - fromRow
        dc == toCol - fromCol
        straight == (dr = 0) # (dc = 0)
        diagonal == Abs(dr) = Abs(dc) /\ dr # 0
    IN  CASE p.type = PAWN   -> dr = pawnDirection(p.color) /\ Abs(dc) = 1
          [] p.type = KNIGHT -> {Abs(dr), Abs(dc)} = {1, 2}
          [] p.type = KING   -> Abs(dr) <= 1 /\ Abs(dc) <= 1 /\ <<dr, dc>> # <<0, 0>>
          [] p.type = ROOK   -> straight /\ clearBetween(b, fromRow, fromCol, toRow, toCol)
          [] p.type = BISHOP -> diagonal /\ clearBetween(b, fromRow, fromCol, toRow, toCol)
          [] p.type = QUEEN  -> (straight \/ diagonal)
                                /\ clearBetween(b, fromRow, fromCol, toRow, toCol)
          [] OTHER -> FALSE

threatened(b, row, col, byColor) ==
    \E sq \in Squares :
        /\ b[sq[1]][sq[2]].color = byColor
        /\ reaches(b, sq[1], sq[2], row, col)

kingThreatened(b, color) ==
    \E sq \in kingSquares(b, color) : threatened(b, sq[1], sq[2], opposite(color))

validMovesAt(row, col) ==
    getValidMoves(board, enPassantTarget, currentTurn, row, col)

\* the game after the caller selects (row, col) and makes the move
applied(row, col, move, promotionPiece) ==
    makeMove(selectPiece(Game, row, col), row, col, move.row, move.col,
             promotionPiece).game

lastRecord == moveHistory[Len(moveHistory)]

twoSquareAdvance(record) ==
    record.piece.type = PAWN /\ Abs(record.to.row - record.from.row) = 2

passedOver(record) ==
    [row |-> (record.from.row + record.to.row) \div 2, col |-> record.to.col]

\* C2: a successful makeMove followed by undoMove leaves board, currentTurn,
\* enPassantTarget, isCheck, gameOver and winner as they were before the move,
\* for every legal move of the side to move.
C2_RoundTrip ==
    [][Len(moveHistory') = Len(moveHistory) + 1 =>
          \E undone \in {undoMove(Game')} :
             /\ ret' = "true"
             /\ undone.ret = "true"
             /\ undone.game.board = board
             /\ undone.game.currentTurn = currentTurn
             /\ undone.game.enPassantTarget = enPassantTarget
             /\ undone.game.isCheck = isCheck
             /\ undone.game.gameOver = gameOver
             /\ undone.game.winner = winner]_vars

\* an en-passant capture has just been made
C2_Witness ==
    /\ moveHistory # <<>>
    /\ ret = "true"
    /\ lastRecord.enPassant
    /\ lastRecord.captured.type = PAWN

\* C3: after any move returned by getValidMoves has been applied, the king of
\* the side that moved is not attacked by any opposing piece.
C3_KingSafeAfterMove ==
    moveHistory # <<>> =>
        /\ kingSquares(board, lastRecord.piece.color) # {}
        /\ ~kingThreatened(board, lastRecord.piece.color)

\* a move has been made and, in the position it leads to, the legality filter
\* removes a pseudo-legal move of the side to move
C3_Witness ==
    /\ moveHistory # <<>>
    /\ ~gameOver
    /\ \E sq \in Squares :
          LET piece == board[sq[1]][sq[2]]
          IN  /\ piece.color = currentTurn
              /\ Len(validMovesAt(sq[1], sq[2]))
                   < Len(getRawMoves(board, enPassantTarget, sq[1], sq[2], piece, FALSE))

\* C4: isCheck says whether the king of the side to move is attacked, gameOver
\* is true exactly when that side has no legal move, and winner is then the
\* side that just moved if isCheck and 'draw' otherwise; f3 e5 g4 Qh4 ends
\* with gameOver, winner black and isCheck.
C4_TerminalDetection ==
    /\ isCheck = kingThreatened(board, currentTurn)
    /\ gameOver = (getAllValidMoves(board, enPassantTarget, currentTurn, currentTurn) = <<>>)
    /\ gameOver => winner = (IF isCheck THEN opposite(currentTurn) ELSE "draw")
    /\ played(moveHistory) = FoolsMate =>
          gameOver /\ winner = BLACK /\ isCheck /\ currentTurn = WHITE

C4_Witness ==
    /\ played(moveHistory) = FoolsMate
    /\ ret = "true"
    /\ gameOver

\* C5: an en-passant move is offered only on the ply right after the opposing
\* pawn's two-square advance, its destination is the square that pawn passed
\* over, and applying it removes the pawn from the square it landed on, never
\* from the destination; after e4 a6 e5 d5 the e5 pawn has the move to d6 and
\* making it empties d5.
C5_EnPassant ==
    /\ \A sq \in Squares :
          LET pawn == board[sq[1]][sq[2]]
              moves == validMovesAt(sq[1], sq[2])
          IN  (pawn.type = PAWN /\ pawn.color = currentTurn) =>
              \A i \in DOMAIN moves :
                 moves[i].enPassant =>
                    /\ moveHistory # <<>>
                    /\ lastRecord.piece.color = opposite(currentTurn)
                    /\ twoSquareAdvance(lastRecord)
                    /\ [row |-> moves[i].row, col |-> moves[i].col] = passedOver(lastRecord)
                    /\ board[moves[i].row][moves[i].col] = NoPiece
                    /\ lastRecord.to.col = moves[i].col
                    /\ lastRecord.to.row = moves[i].row - pawnDirection(currentTurn)
                    /\ \E after \in {applied(sq[1], sq[2], moves[i], "none")} :
                          /\ after.board[lastRecord.to.row][lastRecord.to.col] = NoPiece
                          /\ after.board[moves[i].row][moves[i].col].type = PAWN
                          /\ after.board[moves[i].row][moves[i].col].color = currentTurn
                          /\ after.moveHistory[Len(after.moveHistory)].captured
                               = board[lastRecord.to.row][lastRecord.to.col]
    /\ played(moveHistory) = SubSeq(EnPassantLine, 1, 4) =>
          \E moves \in {validMovesAt(3, 4)} :
             \E i \in DOMAIN moves :
                moves[i].enPassant /\ moves[i].row = 2 /\ moves[i].col = 3
    /\ played(moveHistory) = EnPassantLine =>
          /\ board[3][3] = NoPiece
          /\ board[2][3].type = PAWN /\ board[2][3].color = WHITE

\* e4 a6 e5 d5 exd6 has been played, the last move as an en-passant capture
C5_Witness ==
    /\ played(moveHistory) = EnPassantLine
    /\ lastRecord.enPassant
    /\ capturedPieces[WHITE] # <<>>

\* C6: enPassantTarget is the square passed over when the last move made was a
\* pawn's two-square advance and null after every other move, so a target
\* never survives more than one ply.
C6_EnPassantTarget ==
    enPassantTarget =
        IF moveHistory # <<>> /\ twoSquareAdvance(lastRecord)
        THEN passedOver(lastRecord)
        ELSE NoSquare

\* a move that is not a two-square advance has followed one, and cleared the
\* target
C6_Witness ==
    /\ Len(moveHistory) >= 2
    /\ ret = "true"
    /\ twoSquareAdvance(moveHistory[Len(moveHistory) - 1])
    /\ ~twoSquareAdvance(lastRecord)
    /\ enPassantTarget = NoSquare

castlingCorner(side) == IF side = "kingside" THEN 7 ELSE 0

castlingCrossed(side) == IF side = "kingside" THEN 5 ELSE 3

castlingLanding(side) == IF side = "kingside" THEN 6 ELSE 2

\* the castling moves getValidMoves offers the king of the side to move
castlingOffers ==
    { <<sq, side>> \in Squares \X {"kingside", "queenside"} :
        /\ sq \in kingSquares(board, currentTurn)
        /\ \E i \in DOMAIN validMovesAt(sq[1], sq[2]) :
              validMovesAt(sq[1], sq[2])[i].castling = side }

\* C7: a castling move is offered only if the king has not moved, the corner
\* piece of that side is a rook that has not moved, every square between them
\* is empty, the king is not in check, and neither the square the king crosses
\* nor its destination is attacked by the opponent.
C7_CastlingConditions ==
    \A offer \in castlingOffers :
        LET row == offer[1][1]
            col == offer[1][2]
            side == offer[2]
            corner == board[row][castlingCorner(side)]
            enemy == opposite(currentTurn)
        IN  /\ ~board[row][col].hasMoved
            /\ corner.type = ROOK
            /\ ~corner.hasMoved
            /\ \A c \in Coords :
                  ((c < col /\ c > castlingCorner(side)) \/ (c > col /\ c < castlingCorner(side)))
                     => board[row][c] = NoPiece
            /\ ~threatened(board, row, col, enemy)
            /\ ~threatened(board, row, castlingCrossed(side), enemy)
            /\ ~threatened(board, row, castlingLanding(side), enemy)

\* castling is offered to the side to move
C7_Witness ==
    /\ moveHistory # <<>>
    /\ castlingOffers # {}

kingHasMoved(color) ==
    \E i \in DOMAIN moveHistory :
        moveHistory[i].piece.type = KING /\ moveHistory[i].piece.color = color

rookHasMoved(color, side) ==
    \E i \in DOMAIN moveHistory :
        /\ moveHistory[i].piece.type = ROOK
        /\ moveHistory[i].piece.color = color
        /\ moveHistory[i].from = [row |-> homeRow(color), col |-> castlingCorner(side)]

\* C8: once moveHistory holds a move of a king, no castling move is offered to
\* that king, and once it holds a move of a rook, none with that rook, even
\* after the piece has returned to its original square.
C8_CastlingRightsLost ==
    \A offer \in castlingOffers :
        /\ ~kingHasMoved(currentTurn)
        /\ ~rookHasMoved(currentTurn, offer[2])

\* the king or a rook of the side to move has moved and is back on its
\* original square, with the squares between king and that rook empty
C8_Witness ==
    \E side \in {"kingside", "queenside"} :
        LET row == homeRow(currentTurn)
            corner == board[row][castlingCorner(side)]
        IN  /\ kingHasMoved(currentTurn) \/ rookHasMoved(currentTurn, side)
            /\ <<row, 4>> \in kingSquares(board, currentTurn)
            /\ corner.type = ROOK /\ corner.color = currentTurn
            /\ \A c \in Coords :
                  ((c < 4 /\ c > castlingCorner(side)) \/ (c > 4 /\ c < castlingCorner(side)))
                     => board[row][c] = NoPiece
            /\ ~isCheck

\* C9: the board holds exactly one white king and exactly one black king, and
\* no move returned by getValidMoves has a king's square as its destination.
C9_KingsNeverCaptured ==
    /\ Cardinality(kingSquares(board, WHITE)) = 1
    /\ Cardinality(kingSquares(board, BLACK)) = 1
    /\ \A sq \in Squares :
          \A to \in destinations(sq[1], sq[2]) : board[to[1]][to[2]].type # KING

\* a king stands attacked and its side has legal moves
C9_Witness ==
    /\ isCheck
    /\ ~gameOver
    /\ moveHistory # <<>>
    /\ kingThreatened(board, currentTurn)

\* the board holding nothing but the piece on (row, col)
alone(row, col) ==
    [r \in Coords |-> [c \in Coords |->
        IF r = row /\ c = col THEN board[row][col] ELSE NoPiece]]

\* an enemy pawn stands diagonally behind (row, col), as that pawn advances
pawnGuards(b, row, col, color) ==
    \E dc \in {-1, 1} :
        /\ inRange(row - pawnDirection(color), col + dc)
        /\ b[row - pawnDirection(color)][col + dc].type = PAWN
        /\ b[row - pawnDirection(color)][col + dc].color = color

\* C10: isSquareAttacked is true for both squares diagonally forward of every
\* pawn, empty or occupied, and never for the square straight ahead of it;
\* getValidMoves offers a pawn a diagonal move only onto an enemy piece or the
\* en-passant target; a king is never offered an empty square diagonally in
\* front of an enemy pawn.
C10_PawnAttackVsMove ==
    /\ \A sq \in Squares :
          LET pawn == board[sq[1]][sq[2]]
              ahead == sq[1] + pawnDirection(pawn.color)
          IN  pawn.type = PAWN =>
              /\ \A dc \in {-1, 1} :
                    inRange(ahead, sq[2] + dc) =>
                       /\ isSquareAttacked(board, ahead, sq[2] + dc, pawn.color)
                       /\ isSquareAttacked(alone(sq[1], sq[2]), ahead, sq[2] + dc, pawn.color)
              /\ inRange(ahead, sq[2]) =>
                    ~isSquareAttacked(alone(sq[1], sq[2]), ahead, sq[2], pawn.color)
              /\ \A to \in destinations(sq[1], sq[2]) :
                    to[2] # sq[2] =>
                       \/ board[to[1]][to[2]].color = opposite(pawn.color)
                       \/ [row |-> to[1], col |-> to[2]] = enPassantTarget
    /\ \A sq \in kingSquares(board, currentTurn) :
          \A to \in destinations(sq[1], sq[2]) :
             ~(/\ board[to[1]][to[2]] = NoPiece
               /\ pawnGuards(board, to[1], to[2], opposite(currentTurn)))

\* next to the king of the side to move there is an empty square that an enemy
\* pawn guards and that no other enemy piece would attack once the king stood
\* on it
C10_Witness ==
    /\ moveHistory # <<>>
    /\ \E sq \in kingSquares(board, currentTurn) :
          \E dr \in {-1, 0, 1}, dc \in {-1, 0, 1} :
             LET row == sq[1] + dr
                 col == sq[2] + dc
                 enemy == opposite(currentTurn)
                 stepped == setPiece(setPiece(board, row, col, board[sq[1]][sq[2]]),
                                     sq[1], sq[2], NoPiece)
                 others == [r \in Coords |-> [c \in Coords |->
                              IF stepped[r][c].type = PAWN /\ stepped[r][c].color = enemy
                              THEN NoPiece ELSE stepped[r][c]]]
             IN  /\ inRange(row, col)
                 /\ board[row][col] = NoPiece
                 /\ pawnGuards(board, row, col, enemy)
                 /\ ~threatened(others, row, col, enemy)

\* C14: the position created by reset() gives white exactly 20 moves, 16 of
\* pawns and 4 of knights, and getValidMoves(6, 4) returns exactly the
\* destinations (5, 4) and (4, 4).
C14_InitialMoves ==
    (board = getInitialBoard /\ currentTurn = WHITE /\ enPassantTarget = NoSquare) =>
        \E moves \in {getAllValidMoves(board, enPassantTarget, currentTurn, WHITE)} :
            /\ Len(moves) = 20
            /\ Cardinality({i \in DOMAIN moves : moves[i].piece.type = PAWN}) = 16
            /\ Cardinality({i \in DOMAIN moves : moves[i].piece.type = KNIGHT}) = 4
            /\ Len(validMovesAt(6, 4)) = 2
            /\ destinations(6, 4) = {<<5, 4>>, <<4, 4>>}

\* the game is in the position reset() creates, after moves were made and
\* taken back
C14_Witness ==
    /\ board = getInitialBoard
    /\ currentTurn = WHITE
    /\ moveHistory = <<>>
    /\ ret = "true"

farRank(color) == IF color = WHITE THEN 0 ELSE 7

\* C15: every pawn move onto the far rank is flagged promotion; makeMove with
\* a choice leaves a piece of the chosen kind and the pawn's color on the
\* destination, and with no choice the pawn itself; undoMove then puts a pawn
\* of that color with its former hasMoved back on the from-square and leaves
\* the destination as it was before the move.
C15_Promotion ==
    \A sq \in Squares :
        LET pawn == board[sq[1]][sq[2]]
        IN  (pawn.type = PAWN /\ pawn.color = currentTurn
                /\ sq[1] + pawnDirection(pawn.color) = farRank(pawn.color)) =>
            \A moves \in {validMovesAt(sq[1], sq[2])} :
               \A i \in DOMAIN moves :
                  /\ moves[i].row = farRank(pawn.color)
                  /\ moves[i].promotion
                  /\ \A choice \in {"none", QUEEN, ROOK, BISHOP, KNIGHT} :
                        \E after \in {applied(sq[1], sq[2], moves[i], choice)} :
                           /\ after.board[moves[i].row][moves[i].col].color = pawn.color
                           /\ after.board[moves[i].row][moves[i].col].type
                                = (IF choice = "none" THEN PAWN ELSE choice)
                           /\ after.board[sq[1]][sq[2]] = NoPiece
                           /\ \E undone \in {undoMove(after)} :
                                 /\ undone.ret = "true"
                                 /\ undone.game.board[sq[1]][sq[2]] = pawn
                                 /\ undone.game.board[moves[i].row][moves[i].col]
                                      = board[moves[i].row][moves[i].col]

\* a black pawn has just been promoted to a rook
C15_Witness ==
    /\ moveHistory # <<>>
    /\ lastRecord.promotion
    /\ lastRecord.piece.color = BLACK
    /\ lastRecord.promotionPiece = ROOK
    /\ board[lastRecord.to.row][lastRecord.to.col].type = ROOK
    /\ board[lastRecord.to.row][lastRecord.to.col].color = lastRecord.piece.color

\* C16: undoMove on a game with an empty moveHistory returns false and changes
\* no state field.
C16_UndoOnEmptyHistory ==
    [][(moveHistory = <<>> /\ UndoMove) => (ret' = "false" /\ UNCHANGED gameFields)]_vars

\* undoMove has been refused on a game with no history
C16_Witness ==
    /\ moveHistory = <<>>
    /\ ret = "false"

\* C17: getValidMoves is empty for an empty square and for a piece whose color
\* is not currentTurn, and getAllValidMoves is empty for the color that is not
\* on turn.
C17_OnlySideToMove ==
    /\ \A sq \in Squares :
          (board[sq[1]][sq[2]] = NoPiece \/ board[sq[1]][sq[2]].color # currentTurn)
             => validMovesAt(sq[1], sq[2]) = <<>>
    /\ getAllValidMoves(board, enPassantTarget, currentTurn, opposite(currentTurn)) = <<>>

\* black is on turn and a white piece has pseudo-legal moves
C17_Witness ==
    /\ currentTurn = BLACK
    /\ \E sq \in Squares :
          /\ board[sq[1]][sq[2]].color = WHITE
          /\ getRawMoves(board, enPassantTarget, sq[1], sq[2], board[sq[1]][sq[2]], FALSE)
               # <<>>

\* C19: getPiece returns null and setPiece changes nothing for every row or
\* col outside 0..7.
C19_OutOfRange ==
    [][\A row \in ProbeCoords, col \in ProbeCoords :
          (row \notin Coords \/ col \notin Coords) =>
             /\ GetPiece(row, col) => probe'.piece = NoPiece
             /\ \A piece \in ProbePieces : SetPiece(row, col, piece) => UNCHANGED board]_vars

\* getPiece has been called outside a board that setPiece has changed
C19_Witness ==
    /\ probe.row \notin Coords \/ probe.col \notin Coords
    /\ probe.piece = NoPiece
    /\ board # getInitialBoard

(***************************************************************************)
(* The move chooser                                                        *)
(***************************************************************************)
\* the game after the move has been played the way makeAIMove plays it
afterAIMove(g, move) ==
    makeMove(selectPiece(g, move.from.row, move.from.col),
             move.from.row, move.from.col, move.to.row, move.to.col,
             aiPromotionPiece(move)).game

\* the pieces a player can choose for a move
replyChoices(moveInfo) ==
    IF moveInfo.promotion THEN {QUEEN, ROOK, BISHOP, KNIGHT} ELSE {"none"}

\* the side to move in g has a move that checkmates
hasMatingMove(g) ==
    \E row \in Coords, col \in Coords :
       \E selected \in {selectPiece(g, row, col)} :
          \E i \in DOMAIN selected.validMoves :
             \E choice \in replyChoices(selected.validMoves[i]) :
                LET end == makeMove(selected, row, col, selected.validMoves[i].row,
                                    selected.validMoves[i].col, choice).game
                IN  end.gameOver /\ end.winner = g.currentTurn

\* after the move the opponent has a reply that checkmates
allowsMate(g, move) == hasMatingMove(afterAIMove(g, move))

legalMoves(g) == getAllValidMoves(g.board, g.enPassantTarget, g.currentTurn, g.currentTurn)

\* C13: at hard difficulty, whenever the side to move has a legal move after
\* which the opponent has no checkmating reply, the move getBestMove returns
\* is not one after which the opponent has a reply that checkmates.
C13_NoMateInOne ==
    (/\ difficulty = "hard"
     /\ branch = "search"
     /\ \E i \in DOMAIN legalMoves(Game) : ~allowsMate(Game, legalMoves(Game)[i]))
    => ~allowsMate(Game, bestMove)

\* a step in which getBestMove is called and returns: no other step sets branch
getBestMoveReturns == branch = "none" /\ branch' # "none"

\* C11: getBestMove leaves the caller's game unchanged: on return the board
\* (type, color, hasMoved of every square), currentTurn, enPassantTarget,
\* moveHistory, capturedPieces, gameOver, winner and isCheck equal their values
\* at the call, at every difficulty, in the random and in the search branch.
C11_GameUnchanged ==
    [][getBestMoveReturns
         => UNCHANGED <<board, currentTurn, enPassantTarget, moveHistory,
                        capturedPieces, gameOver, winner, isCheck>>]_vars

\* a search at depth 4 has returned on a game with an en-passant target, and
\* the search of some root move was cut by a break
C11_Witness ==
    /\ branch = "search"
    /\ maxDepth = 4
    /\ enPassantTarget # NoSquare
    /\ \E i \in DOMAIN rootScores : rootScores[i].cut
    /\ rootScores = getBestMove(Game, 4, randomFactor, 99, 0).scores

\* C12: getBestMove returns null exactly when the side to move has no legal
\* move; otherwise the move it returns is an element of
\* game.getAllValidMoves(game.currentTurn), and makeMove, called after
\* selectPiece on its from-square as makeAIMove does, accepts it.
C12_ReturnsLegalMove ==
    /\ branch # "none"
         => \A moves \in {legalMoves(Game)} :
               /\ (bestMove = NoMove) <=> (moves = <<>>)
               /\ bestMove # NoMove
                    => /\ \E i \in DOMAIN moves : moves[i] = bestMove
                       /\ makeMove(selectPiece(Game, bestMove.from.row, bestMove.from.col),
                                   bestMove.from.row, bestMove.from.col,
                                   bestMove.to.row, bestMove.to.col,
                                   aiPromotionPiece(bestMove)).ret = "true"
    /\ ret \in {"none", "true"}

\* the search has returned a promotion, and makeMove has accepted it and put a
\* queen on the far rank
C12_Witness ==
    /\ ret = "true"
    /\ Len(moveHistory) = 1
    /\ moveHistory[1].promotion
    /\ moveHistory[1].promotionPiece = QUEEN
    /\ getPiece(board, moveHistory[1].to.row, moveHistory[1].to.col).type = QUEEN

\* getBestMove has returned null on a game whose side to move is checkmated
C12_NullWitness == branch = "null" /\ bestMove = NoMove /\ isCheck /\ gameOver

\* C18: setDifficulty maps 'easy' to maxDepth 2 and random-move probability
\* 0.30, 'medium' to maxDepth 3 and 0.10, 'hard' to maxDepth 4 and 0; and a
\* getBestMove call made with probability 0 never returns from the random
\* branch.
C18_Difficulty ==
    [][/\ \A level \in Levels :
             SetDifficulty(level)
               => /\ level = "easy" => (maxDepth' = 2 /\ randomFactor' = 30)
                  /\ level = "medium" => (maxDepth' = 3 /\ randomFactor' = 10)
                  /\ level = "hard" => (maxDepth' = 4 /\ randomFactor' = 0)
       /\ (getBestMoveReturns /\ randomFactor = 0) => branch' # "random"]_vars

\* at the hard level getBestMove has searched several root moves and returned
\* one of them
C18_Witness ==
    /\ difficulty = "hard"
    /\ maxDepth = 4
    /\ randomFactor = 0
    /\ branch = "search"
    /\ Len(rootScores) > 1
    /\ rootScores = getBestMove(Game, maxDepth, randomFactor, 0, 0).scores

SetMax(S) == CHOOSE x \in S : \A y \in S : x >= y

SetMin(S) == CHOOSE x \in S : \A y \in S : x <= y

RECURSIVE exhaustiveMinimax(_, _, _, _, _)
\* minimax without alpha and beta: the maximum, or the minimum, over all moves
\* of the side to move, to the given depth
exhaustiveMinimax(g, depth, isMaximizing, aiColor, maxD) ==
    IF depth = 0 THEN evaluateBoard(g, aiColor)
    ELSE
    CHOOSE value \in
      { IF moves = <<>>
        THEN noMoveScore(isKingInCheck(g.board, g.currentTurn), isMaximizing, maxD, depth)
        ELSE LET values ==
                   { exhaustiveMinimax(
                        [makeSimulatedMove(g, moves[i]) EXCEPT
                           !.currentTurn = opposite(g.currentTurn)],
                        depth - 1, ~isMaximizing, aiColor, maxD) : i \in DOMAIN moves }
             IN  IF isMaximizing THEN SetMax(values) ELSE SetMin(values)
        : moves \in { getAllValidMovesForMinimax(g, g.currentTurn) } } : TRUE

\* the value of a root move: the opponent to move after it, maxD - 1 plies deep
rootValue(g, move, maxD) ==
    exhaustiveMinimax([makeSimulatedMove(g, move) EXCEPT
                         !.currentTurn = opposite(g.currentTurn)],
                      maxD - 1, FALSE, g.currentTurn, maxD)

\* C20: with random-move probability 0, the score getBestMove computes for
\* each root move, with branches cut when beta <= alpha, is the move's value
\* under exhaustive minimax of depth maxDepth - 1, and the move returned is the
\* first one, in the order produced by sortMoves, whose value is maximal.
C20_PruningKeepsValue ==
    [][(getBestMoveReturns /\ randomFactor = 0)
         => \A sorted \in {sortMoves(legalMoves(Game), Game)} :
               /\ Len(rootScores') = Len(sorted)
               /\ \A i \in DOMAIN sorted :
                     rootScores'[i].score = rootValue(Game, sorted[i], maxDepth)
               /\ sorted # <<>>
                    => \E i \in DOMAIN sorted :
                          /\ bestMove' = sorted[i]
                          /\ \A j \in DOMAIN sorted :
                                rootScores'[j].score <= rootScores'[i].score
                          /\ \A j \in 1..(i - 1) :
                                rootScores'[j].score < rootScores'[i].score]_vars

\* a depth-4 search has returned in which breaks cut the search of root moves
\* and two root moves share the maximal score: the first of them is returned
C20_Witness ==
    /\ randomFactor = 0
    /\ branch = "search"
    /\ \E i \in DOMAIN rootScores : rootScores[i].cut
    /\ \E i, j \in DOMAIN rootScores :
          /\ i < j
          /\ rootScores[i].score = rootScores[j].score
          /\ \A k \in DOMAIN rootScores : rootScores[k].score <= rootScores[i].score
          /\ \A k \in 1..(i - 1) : rootScores[k].score < rootScores[i].score
          /\ bestMove = sortMoves(legalMoves(Game), Game)[i]
    /\ rootScores = getBestMove(Game, 4, randomFactor, 0, 0).scores

(***************************************************************************)
(* The functions of the move chooser                                       *)
(***************************************************************************)
\* the step is a minimax call that has returned
minimaxReturns == probe' # probe /\ probe'.call = "minimax"

\* the largest absolute value evaluateBoard can return while both kings are
\* on the board: fifteen pieces of one side at no more than 950 each, the two
\* kings' position bonuses (between -50 and 30), four center squares, one check
evaluationLimit == 15 * 950 + (30 + 50) + 4 * 10 + 50

\* C21: minimax at depth 0 returns evaluateBoard of the position; at depth > 0,
\* when the side to move has no legal move, it returns 0 if that side is not in
\* check, -100000 + p if it is in check and is the searching color and
\* 100000 - p if it is in check and is the opponent, p = maxDepth - depth; an
\* opponent's mate after fewer plies scores higher than one after more plies,
\* and every mate score is larger in absolute value than any evaluation.
C21_MinimaxLeaves ==
    [][/\ minimaxReturns
          => LET depth == probe'.depth
                 aiColor == probe'.aiColor
                 p == maxDepth - depth
             IN  /\ depth = 0
                      => /\ probe'.result = evaluateBoard(Game, aiColor)
                         /\ Abs(probe'.result) <= evaluationLimit
                 /\ (depth > 0 /\ legalMoves(Game) = <<>>)
                      => probe'.result =
                           (IF ~isCheck THEN 0
                            ELSE IF currentTurn = aiColor THEN -100000 + p
                            ELSE 100000 - p)
       /\ \A type \in PIECES \ {KING}, color \in COLORS, row \in Coords, col \in Coords :
             PIECE_VALUES[type] + POSITION_BONUS[type][color][row + 1][col + 1] <= 950
       /\ \A color \in COLORS, row \in Coords, col \in Coords :
             POSITION_BONUS[KING][color][row + 1][col + 1] \in -50..30
       /\ \A maxD \in 2..4 : \A d1, d2 \in 1..(maxD - 1) :
             /\ (maxD - d1 < maxD - d2)
                  => noMoveScore(TRUE, FALSE, maxD, d1) > noMoveScore(TRUE, FALSE, maxD, d2)
             /\ noMoveScore(TRUE, FALSE, maxD, d1) > evaluationLimit
             /\ noMoveScore(TRUE, TRUE, maxD, d1) < -evaluationLimit]_vars

\* minimax has been called for the opponent of a side that is checkmated two
\* plies from the root, and has returned 100000 - 2
C21_Witness ==
    /\ probe # NoProbe
    /\ probe.call = "minimax"
    /\ probe.depth > 0
    /\ maxDepth - probe.depth = 2
    /\ legalMoves(Game) = <<>>
    /\ isCheck
    /\ currentTurn # probe.aiColor
    /\ probe.result = 100000 - 2

\* the moves of a list, as a set
moveSet(moves) == { moves[i] : i \in DOMAIN moves }

\* C22 as stated: in every state reached from reset() by legal moves, the
\* search's own generator yields for the side to move the same set of moves
\* (from, to and flags) as getAllValidMoves, and isSquareAttackedForMinimax
\* agrees with isSquareAttacked on every square for both colors.
C22_AgreeOnEverySquare ==
    /\ moveSet(getAllValidMovesForMinimax(Game, currentTurn)) = moveSet(legalMoves(Game))
    /\ \A row \in Coords, col \in Coords, color \in COLORS :
          isSquareAttackedForMinimax(board, row, col, color)
            = isSquareAttacked(board, row, col, color)

\* C22, amended: the two generators yield the same set of moves for the side
\* to move, and the two attack tests agree for each color on every square
\* that does not hold a piece of that color.
C22_GeneratorsAgree ==
    /\ moveSet(getAllValidMovesForMinimax(Game, currentTurn)) = moveSet(legalMoves(Game))
    /\ \A row \in Coords, col \in Coords, color \in COLORS :
          (getPiece(board, row, col) = NoPiece \/ getPiece(board, row, col).color # color)
            => isSquareAttackedForMinimax(board, row, col, color)
                 = isSquareAttacked(board, row, col, color)

\* moves have been played, the side to move is in check (both attack tests
\* say so of its king's square) and both generators offer it moves
C22_Witness ==
    /\ moveHistory # <<>>
    /\ isCheck
    /\ ~gameOver
    /\ LET king == findKing(board, currentTurn)
       IN  /\ isSquareAttackedForMinimax(board, king.row, king.col, opposite(currentTurn))
           /\ isSquareAttacked(board, king.row, king.col, opposite(currentTurn))
    /\ getAllValidMovesForMinimax(Game, currentTurn) # <<>>

\* from and to (square and flags) of the moves of a list
fromTo(moves) == { <<moves[i].from, moves[i].to>> : i \in DOMAIN moves }

\* the game object the search works on once it has simulated the move
simulated(g, move) ==
    [makeSimulatedMove(g, move) EXCEPT !.currentTurn = opposite(g.currentTurn)]

\* the search's generator offers at the node sim the moves getAllValidMoves
\* gives in the game real
nodeAgrees(sim, real) ==
    fromTo(getAllValidMovesForMinimax(sim, sim.currentTurn)) = fromTo(legalMoves(real))

\* C23: in a search of depth 3 or more, at the node after every root move and
\* at the node after every reply to it (all of which the search visits, the
\* root window being full), the moves the search generates are the moves
\* getAllValidMoves gives once the same moves have been played with makeMove;
\* so no castling is generated for a king or a rook the line has relocated.
C23_SearchMovesLegal ==
    [][(getBestMoveReturns /\ branch' = "search" /\ maxDepth >= 3)
         => \A root \in moveSet(legalMoves(Game)) :
               \E sim1 \in { simulated(Game, root) }, real1 \in { afterAIMove(Game, root) } :
                  /\ nodeAgrees(sim1, real1)
                  /\ \A reply \in moveSet(getAllValidMovesForMinimax(sim1, sim1.currentTurn)) :
                        nodeAgrees(simulated(sim1, reply), afterAIMove(real1, reply))]_vars

\* sortMoves has been called and has returned the list sorted
sortMovesReturned == probe # NoProbe /\ probe.call = "sortMoves"

\* the value of the piece a capture takes off its destination square (none for
\* an en-passant capture, whose destination is empty)
victimValue(g, move) ==
    LET target == getPiece(g.board, move.to.row, move.to.col)
    IN  IF target = NoPiece THEN 0 ELSE PIECE_VALUES[target.type]

\* twice the distance |row - 3.5| + |col - 3.5| of the destination from the center
centerDistance2(move) == Abs(2 * move.to.row - 7) + Abs(2 * move.to.col - 7)

\* the sorted list holds the moves of the list that was passed
sameMoves(sorted, moves) ==
    /\ Len(sorted) = Len(moves)
    /\ \A m \in moveSet(moves) :
          Cardinality({ i \in DOMAIN sorted : sorted[i] = m })
            = Cardinality({ i \in DOMAIN moves : moves[i] = m })

evaluateBoardReturned == probe # NoProbe /\ probe.call = "evaluateBoard"

\* what a piece of the given color counts for color c: positive for c's own
signFor(color, c) == IF color = c THEN 1 ELSE -1

RECURSIVE materialOf(_, _, _)
\* the sum, over the squares of S that hold a piece, of the piece's value and
\* position bonus, signed for color c
materialOf(b, c, S) ==
    IF S = {} THEN 0
    ELSE LET sq == CHOOSE x \in S : TRUE
             piece == getPiece(b, sq[1], sq[2])
         IN  (IF piece = NoPiece THEN 0
              ELSE signFor(piece.color, c)
                     * (PIECE_VALUES[piece.type]
                          + POSITION_BONUS[piece.type][piece.color][sq[1] + 1][sq[2] + 1]))
             + materialOf(b, c, S \ {sq})

\* the center squares that hold a piece of the given color
centerHeld(b, color) ==
    { sq \in { <<3, 3>>, <<3, 4>>, <<4, 3>>, <<4, 4>> } :
        getPiece(b, sq[1], sq[2]) # NoPiece /\ getPiece(b, sq[1], sq[2]).color = color }

\* C25: evaluateBoard(game, c) is the sum over all pieces of value plus
\* position bonus, positive for color c and negative for the other color,
\* plus 10 for each center square c holds and minus 10 for each the opponent
\* holds, plus 50 if the opponent's king is in check and minus 50 if c's king
\* is in check; and evaluateBoard(game, white) = -evaluateBoard(game, black).
C25_Evaluation ==
    evaluateBoardReturned
      => LET c == probe.aiColor
         IN  /\ probe.result
                  = materialOf(board, c, Coords \X Coords)
                      + 10 * Cardinality(centerHeld(board, c))
                      - 10 * Cardinality(centerHeld(board, opposite(c)))
                      + (IF isInCheck(board, opposite(c)) THEN 50 ELSE 0)
                      - (IF isInCheck(board, c) THEN 50 ELSE 0)
             /\ probe.result = -evaluateBoard(Game, opposite(c))

\* evaluateBoard has returned for the color whose king is in check, on a board
\* with a piece on a center square
C25_Witness ==
    /\ evaluateBoardReturned
    /\ isInCheck(board, probe.aiColor)
    /\ centerHeld(board, WHITE) \cup centerHeld(board, BLACK) # {}
    /\ probe.result # 0

(***************************************************************************)
(* The queries of the rules engine                                         *)
(***************************************************************************)
\* the step is a getValidMoves, getAllValidMoves or checkGameState call
queryReturns ==
    /\ probe' # probe
    /\ probe'.call \in {"getValidMoves", "getAllValidMoves", "checkGameState"}

\* C26: getValidMoves, getAllValidMoves and the enumeration of checkGameState
\* leave the board (type, color and hasMoved on every square) and
\* enPassantTarget as they were before the call, whether the moves tried were
\* kept or discarded, and change neither currentTurn, moveHistory,
\* capturedPieces nor the stored validMoves; every move is therefore tried on
\* the position the call started from.
C26_QueriesRestore ==
    [][queryReturns
         => /\ UNCHANGED <<board, enPassantTarget, currentTurn, moveHistory,
                           capturedPieces, validMoves>>
            /\ probe'.call = "getValidMoves"
                 => probe'.result = getValidMoves(board, enPassantTarget, currentTurn,
                                                  probe'.row, probe'.col)
            /\ probe'.call = "getAllValidMoves"
                 => probe'.result = getAllValidMoves(board, enPassantTarget, currentTurn,
                                                     probe'.color)]_vars

\* getValidMoves has returned for a piece some of whose pseudo-legal moves
\* were kept and some discarded, while a selection is stored in validMoves
C26_Witness ==
    /\ probe # NoProbe
    /\ probe.call = "getValidMoves"
    /\ validMoves # <<>>
    /\ probe.result # <<>>
    /\ Len(probe.result)
         < Len(getRawMoves(board, enPassantTarget, probe.row, probe.col,
                           getPiece(board, probe.row, probe.col), FALSE))

(***************************************************************************)
(* The history and what it says about the board                            *)
(***************************************************************************)
\* For every square, whether it is empty ("none") or holds a piece that the
\* moves replayed so far have relocated or created (TRUE) or not (FALSE).
\* relocatedAtStart is the initial position: sixteen pieces a side, none
\* relocated.
relocatedAtStart ==
    [r \in Coords |-> [c \in Coords |-> IF r \in {0, 1, 6, 7} THEN FALSE ELSE "none"]]

\* the next record of the history replayed: the moved piece, or the piece the
\* pawn was promoted to, stands relocated on the destination; the castling rook
\* stands relocated next to the king; the victim of an en-passant capture
\* leaves the square beside the capturing pawn
relocate(t, move) ==
    LET t1 == IF move.enPassant
              THEN [t EXCEPT ![move.from.row][move.to.col] = "none"] ELSE t
        t2 == CASE move.castling = "kingside" ->
                     [t1 EXCEPT ![move.from.row][7] = "none", ![move.from.row][5] = TRUE]
                [] move.castling = "queenside" ->
                     [t1 EXCEPT ![move.from.row][0] = "none", ![move.from.row][3] = TRUE]
                [] OTHER -> t1
    IN  [t2 EXCEPT ![move.from.row][move.from.col] = "none",
                   ![move.to.row][move.to.col] = TRUE]

RECURSIVE relocated(_, _)
\* the first n records of the history replayed from the initial position
relocated(history, n) ==
    IF n = 0 THEN relocatedAtStart
    ELSE relocate(relocated(history, n - 1), history[n])

\* C27: in every state reached from reset() by legal moves and undos, a piece
\* has hasMoved = true exactly if a move still in moveHistory relocated it (as
\* the moved piece or as the castling rook) or created it by promotion.
C27_HasMovedTracksRelocation ==
    \E t \in { relocated(moveHistory, Len(moveHistory)) } :
       \A row \in Coords, col \in Coords :
          IF getPiece(board, row, col) = NoPiece THEN t[row][col] = "none"
          ELSE getPiece(board, row, col).hasMoved = t[row][col]

\* a castling is in the history: king and rook stand side by side, both with
\* hasMoved set, and a piece that was never relocated still has it clear
C27_Witness ==
    \E i \in DOMAIN moveHistory :
       /\ moveHistory[i].castling = "kingside"
       /\ getPiece(board, moveHistory[i].from.row, 6).type = KING
       /\ getPiece(board, moveHistory[i].from.row, 6).hasMoved
       /\ getPiece(board, moveHistory[i].from.row, 5).type = ROOK
       /\ getPiece(board, moveHistory[i].from.row, 5).hasMoved
       /\ getPiece(board, moveHistory[i].from.row, 0).type = ROOK
       /\ ~getPiece(board, moveHistory[i].from.row, 0).hasMoved

\* type and color of a piece, "none" for an empty square
kindOf(piece) == IF piece = NoPiece THEN "none" ELSE <<piece.type, piece.color>>

\* the next record of the history replayed on a board of kinds: an en-passant
\* victim leaves the square beside the capturing pawn, a castling rook goes
\* next to the king, and whatever stands on the from-square goes to the
\* destination, as the chosen piece if the move is a promotion with a choice
replayMove(k, move) ==
    LET k1 == IF move.enPassant
              THEN [k EXCEPT ![move.from.row][move.to.col] = "none"] ELSE k
        k2 == CASE move.castling = "kingside" ->
                     [k1 EXCEPT ![move.from.row][7] = "none",
                                ![move.from.row][5] = k1[move.from.row][7]]
                [] move.castling = "queenside" ->
                     [k1 EXCEPT ![move.from.row][0] = "none",
                                ![move.from.row][3] = k1[move.from.row][0]]
                [] OTHER -> k1
        mover == k2[move.from.row][move.from.col]
    IN  [k2 EXCEPT ![move.from.row][move.from.col] = "none",
                   ![move.to.row][move.to.col] =
                      IF move.promotion /\ move.promotionPiece # "none"
                      THEN <<move.promotionPiece, mover[2]>> ELSE mover]

RECURSIVE replayed(_, _)
\* the first n records of the history replayed from the initial position
replayed(history, n) ==
    IF n = 0 THEN [r \in Coords |-> [c \in Coords |-> kindOf(getInitialBoard[r][c])]]
    ELSE replayMove(replayed(history, n - 1), history[n])

\* the pieces the records of the history say the given color captured, in order
capturedBy(history, color) ==
    LET captures == SelectSeq(history, LAMBDA move :
                                 move.piece.color = color /\ move.captured # NoPiece)
    IN  [i \in DOMAIN captures |-> captures[i].captured]

piecesOnBoard == Cardinality({ sq \in Coords \X Coords : getPiece(board, sq[1], sq[2]) # NoPiece })

\* C28: in every state reached from reset() by legal moves and undos, the
\* pieces on the board and in the two capture lists number 32;
\* capturedPieces[c] holds, in order, exactly the pieces captured by c's moves
\* still in moveHistory, all of the other color; and the board holds on every
\* square the piece that replaying moveHistory leaves there, so that after the
\* undo of a capture the captured piece stands again on the square it was
\* taken from (for en passant the victim's square, not the destination).
C28_PieceConservation ==
    /\ piecesOnBoard + Len(capturedPieces[WHITE]) + Len(capturedPieces[BLACK]) = 32
    /\ \A color \in COLORS :
          /\ capturedPieces[color] = capturedBy(moveHistory, color)
          /\ \A i \in DOMAIN capturedPieces[color] :
                capturedPieces[color][i].color = opposite(color)
    /\ \E k \in { replayed(moveHistory, Len(moveHistory)) } :
          \A row \in Coords, col \in Coords :
             kindOf(getPiece(board, row, col)) = k[row][col]

\* an en-passant capture is in the history: the victim is in the capturer's
\* list, its square is empty, and 31 pieces are on the board
C28_Witness ==
    /\ moveHistory # <<>>
    /\ LET move == moveHistory[Len(moveHistory)]
       IN  /\ move.enPassant
           /\ move.captured # NoPiece
           /\ capturedPieces[move.piece.color] = << move.captured >>
           /\ getPiece(board, move.from.row, move.to.col) = NoPiece
    /\ piecesOnBoard = 31

\* currentTurn is white exactly when the history has an even length
turnMatchesHistory == (currentTurn = WHITE) <=> (Len(moveHistory) % 2 = 0)

\* lastMove is from and to of the last record, or null for an empty history
lastMoveMatchesHistory ==
    lastMove = IF moveHistory = <<>> THEN NoLastMove
               ELSE [from |-> moveHistory[Len(moveHistory)].from,
                     to |-> moveHistory[Len(moveHistory)].to]

fileLetter(col) ==
    CASE col = 0 -> "a" [] col = 1 -> "b" [] col = 2 -> "c" [] col = 3 -> "d"
      [] col = 4 -> "e" [] col = 5 -> "f" [] col = 6 -> "g" [] col = 7 -> "h"

\* the digit of a rank 1..8
rankDigit(rank) ==
    CASE rank = 1 -> "1" [] rank = 2 -> "2" [] rank = 3 -> "3" [] rank = 4 -> "4"
      [] rank = 5 -> "5" [] rank = 6 -> "6" [] rank = 7 -> "7" [] rank = 8 -> "8"

\* the letter of a piece other than a pawn
letterOf(type) ==
    CASE type = KING -> "K" [] type = QUEEN -> "Q" [] type = ROOK -> "R"
      [] type = BISHOP -> "B" [] type = KNIGHT -> "N"

\* the notation the rules of the claim give a record
written(move) ==
    IF move.castling = "kingside" THEN "O-O"
    ELSE IF move.castling = "queenside" THEN "O-O-O"
    ELSE LET pawn == move.piece.type = PAWN
             letter == IF pawn THEN "" ELSE letterOf(move.piece.type)
             capture == IF move.captured = NoPiece THEN ""
                        ELSE IF pawn THEN fileLetter(move.from.col) \o "x"
                        ELSE "x"
             square == fileLetter(move.to.col) \o rankDigit(8 - move.to.row)
             suffix == IF move.promotion /\ move.promotionPiece # "none"
                       THEN "=" \o letterOf(move.promotionPiece)
                       ELSE ""
         IN  ((letter \o capture) \o square) \o suffix

\* C30: getMoveNotation of a record of the history is O-O for kingside and
\* O-O-O for queenside castling; otherwise the letter of the piece (none for
\* a pawn), then, only if the record has a captured piece, the file the pawn
\* left when the mover is a pawn and an x, then the file letter (a..h by
\* column) and rank digit (8..1 by row) of the destination, then = and the
\* letter of the promotion piece only if the record is a promotion with a
\* chosen piece; an en passant capture is written like any pawn capture.
C30_MoveNotation ==
    \A i \in 1..Len(moveHistory) :
        LET move == moveHistory[i]
        IN  /\ getMoveNotation(move) = written(move)
            /\ move.enPassant
                 => getMoveNotation(move)
                      = (fileLetter(move.from.col) \o "x")
                          \o (fileLetter(move.to.col) \o rankDigit(8 - move.to.row))

\* the pawn of the promotion line has taken the knight on b8 and become a
\* knight, written cxb8=N; earlier records are the pawn capture axb5, the
\* bishop move Ba6 and the pawn move c7
C30_Witness ==
    /\ Len(moveHistory) = 9
    /\ getMoveNotation(moveHistory[9]) = "cxb8=N"
    /\ getMoveNotation(moveHistory[3]) = "axb5"
    /\ getMoveNotation(moveHistory[6]) = "Ba6"
    /\ getMoveNotation(moveHistory[7]) = "c7"

(***************************************************************************)
(* The application in AI mode                                              *)
(***************************************************************************)
\* a call of makeAIMove applies a move to the game
aiMoveApplied(i) == MakeAIMovePlays(i) /\ moveHistory' # moveHistory

\* C31: in AI mode, under every interleaving of the two timer waits of
\* makeAIMove with the click, undo and new-game handlers, every move that
\* makeAIMove applies to the game moves a black piece on black's turn in a
\* game that is not over, and isAIThinking is true from the start to the end
\* of each call of makeAIMove, so that no second call runs at the same time.
C31_AIMovesItsOwnPieces ==
    /\ [](aiCalls # <<>> => isAIThinking)
    /\ [](Len(aiCalls) <= 1)
    /\ [][\A i \in DOMAIN aiCalls :
            aiMoveApplied(i)
              => /\ currentTurn = appAIColor
                 /\ ~gameOver
                 /\ moveHistory'[Len(moveHistory')].piece.color = appAIColor]_vars

\* a call of makeAIMove is scheduled by a timer or under way
aiMovePending == timers > 0 \/ aiCalls # <<>>

\* C32: in AI mode there is no stuck state: in every state reached through
\* clicks, undo and AI moves in which the game is not over and it is the
\* turn of the AI's color, a call of makeAIMove is scheduled or under way; in
\* particular after the undo handler has run, also when it undoes the human
\* move that ended the game, it is the human's turn or an AI move is pending.
C32_NoStuckState ==
    (~gameOver /\ currentTurn = appAIColor) => aiMovePending

\* a pawn stands on the first or on the last row
pawnOnFarRank ==
    \E row \in {0, 7}, col \in Coords : board[row][col].type = PAWN

\* C33: through the click flow of the UI and the AI controller a pawn that
\* reaches the far rank is always promoted: after every move completed by
\* handleSquareClick, handlePromotion or makeAIMove no pawn stands on row 0 or
\* row 7, for every order of square clicks and promotion-piece clicks while a
\* promotion choice is pending.
C33_PawnsArePromoted == ~pawnOnFarRank

(***************************************************************************)
(* The back end                                                            *)
(***************************************************************************)

playersOf(game) == {game.players.white, game.players.black}

waiting == { queue[k] : k \in DOMAIN queue }

\* C36: under any interleaving of join_queue, leave_queue and disconnect
\* invocations, matchmaking places each player in at most one created game,
\* every created game has two distinct players holding opposite colors with
\* currentTurn 'white', and both players of a created game were waiting in
\* the queue when it was created and are no longer in it afterwards.
C36_Matchmaking ==
    /\ [](\A p \in MatchPlayers :
            Cardinality({ g \in DOMAIN games : p \in playersOf(games[g]) }) <= 1)
    /\ [](\A g \in DOMAIN games :
            /\ games[g].players.white # games[g].players.black
            /\ games[g].currentTurn = "white")
    /\ [][games' # games => playersOf(games'[Len(games')]) \subseteq waiting]_vars
    /\ [][\A i \in DOMAIN lambdas :
            (lambdas[i].pc = "deletePlayers" /\ lambdas'[i].pc = "notifyPlayers")
              => playersOf(games[lambdas[i].gameId]) \cap waiting' = {}]_vars

\* the moves of the messages of one type about a game, in the order posted
movesPosted(type, gameId) ==
    LET about == SelectSeq(sent, LAMBDA m : m.type = type /\ m.gameId = gameId)
    IN  [k \in DOMAIN about |-> about[k].move]

storedMoves(gameId) ==
    [k \in DOMAIN games[gameId].moves |-> games[gameId].moves[k].move]

RECURSIVE inOrderWithin(_, _)
\* the elements of a occur in b, in the order of a
inOrderWithin(a, b) ==
    IF a = <<>> THEN TRUE
    ELSE IF b = <<>> THEN FALSE
    ELSE IF Head(a) = Head(b) THEN inOrderWithin(Tail(a), Tail(b))
    ELSE inOrderWithin(a, Tail(b))

\* C35: under any interleaving of concurrent game-move invocations on one
\* game, the stored moves list contains every move that was answered with
\* move_confirmed, in the order they were confirmed, with players alternating
\* white, black, white, ..., and the stored currentTurn is the color opposite
\* to the player of the last stored move; the opponent is sent opponent_move
\* only for moves that are in the stored list.
C35_ConfirmedMovesAreStored ==
    \A gameId \in DOMAIN games :
        LET stored == games[gameId].moves
        IN  /\ inOrderWithin(movesPosted("move_confirmed", gameId), storedMoves(gameId))
            /\ \A k \in DOMAIN stored :
                  stored[k].player = IF k % 2 = 1 THEN "white" ELSE "black"
            /\ stored # <<>>
                 => games[gameId].currentTurn = opposite(stored[Len(stored)].player)
            /\ \A k \in DOMAIN movesPosted("opponent_move", gameId) :
                  \E j \in DOMAIN stored :
                     stored[j].move = movesPosted("opponent_move", gameId)[k]

\* the request carries gameId and move, the stored game exists with status
\* 'active', the sender is its white or black player and the stored
\* currentTurn is the sender's color
moveAllowed(l) ==
    /\ l.gameId # 0
    /\ l.move # 0
    /\ l.gameId \in DOMAIN games
    /\ games[l.gameId].status = "active"
    /\ \/ /\ games[l.gameId].players.white = l.connectionId
          /\ games[l.gameId].currentTurn = "white"
       \/ /\ games[l.gameId].players.black = l.connectionId
          /\ games[l.gameId].currentTurn = "black"

\* the invocations of the game-move handler that take a step
steppingMoves ==
    { i \in DOMAIN lambdas' :
        /\ lambdas'[i].kind = "game-move"
        /\ i \in DOMAIN lambdas => lambdas'[i] # lambdas[i] }

\* C34: the game-move handler appends a move to the stored game and flips
\* its currentTurn only if the request carries gameId and move, the game
\* exists with status 'active', the sender's connection id is the game's
\* white or black player, and the stored currentTurn equals the sender's
\* color, all as the handler reads them from the table; in every other case
\* it answers 400, 404 or 403, writes nothing to the games table and sends
\* no message.
C34_MoveOnlyWhenAllowed ==
    [][\A i \in steppingMoves :
          LET l == lambdas'[i]
              arrives == i \notin DOMAIN lambdas
              reads == ~arrives /\ lambdas[i].pc = "getGame"
          IN  /\ arrives
                   => /\ IF l.gameId # 0 /\ l.move # 0 THEN l.pc = "getGame"
                         ELSE l.pc = "done" /\ l.statusCode = 400
                      /\ UNCHANGED <<games, sent>>
              /\ reads
                   => /\ IF moveAllowed(l)
                         THEN l.pc = "updateGame" /\ l.game = games[l.gameId]
                         ELSE l.pc = "done" /\ l.statusCode \in {400, 404, 403}
                      /\ UNCHANGED <<games, sent>>
              /\ games' # games
                   => /\ lambdas[i].pc = "updateGame"
                      /\ games'[l.gameId].moves
                           = Append(l.game.moves, [move |-> l.move, player |-> l.playerColor])
                      /\ games'[l.gameId].currentTurn = opposite(l.game.currentTurn)
              /\ sent' # sent => lambdas[i].pc \in {"notifyOpponent", "confirmMove"}]_vars

\* black's move has been stored after white's, a third client was answered
\* 403 and a request for a game that does not exist 404
C34_Witness ==
    /\ Len(games[1].moves) = 2
    /\ games[1].moves[2].player = "black"
    /\ \E i \in DOMAIN lambdas :
          /\ lambdas[i].kind = "game-move"
          /\ lambdas[i].connectionId = "c3"
          /\ lambdas[i].statusCode = 403

====
